---- MODULE Spec2Model ----
(***************************************************************************)
(* 1Tap_Notify: the collector pool (src/self-bot/main.py) and the          *)
(* republisher (src/destination_bot/bot.py), with the Redis list between   *)
(* them, the routing maps, config.json and the destination guild.          *)
(*                                                                         *)
(* Strings are modelled by what the code reads of them.  A text is the     *)
(* sequence of its lines, a line the sequence of the lengths of its words  *)
(* (the pieces between single blanks), so that len(), split(), strip()     *)
(* and truthiness are computed as Python computes them.  A name is the     *)
(* sequence of its characters.                                             *)
(***************************************************************************)
EXTENDS Integers, Sequences, FiniteSets, TLC

\* ------------------------------------------------------------------ bounds
\* gateway MESSAGE_CREATE events delivered to collectors in one behaviour
MaxEvents == 2
\* stands for the 1000 of `len(recent_message_ids) > 1000`, scaled down
MaxRecent == 1
\* destination channel ids the guild can hand out in one behaviour
MaxChan == 2
\* times on_ready fires in one behaviour
MaxReady == 2
\* /protect and /unprotect commands in one behaviour
MaxCmds == 2
\* modifications of the collectors' config.json
MaxMods == 2
\* seconds the clock of the collector process runs
MaxClock == 16
\* source text channels deleted in one behaviour
MaxDeleted == 2

\* ------------------------------------------------------- program constants
max_length == 1900
TruncateAt == 1900
PartAttempts == 3
\* the two moveable category ids (snowflakes; only their identity is used)
RELEASE_GUIDES_CATEGORY_ID == "release-guides"
DAILY_SCHEDULE_CATEGORY_ID == "daily-schedule"
MOVEABLE_CATEGORY_IDS == {RELEASE_GUIDES_CATEGORY_ID, DAILY_SCHEDULE_CATEGORY_ID}

\* ------------------------------------------------------------ string model
RECURSIVE SumSeq(_)
SumSeq(s) == IF s = <<>> THEN 0 ELSE Head(s) + SumSeq(Tail(s))

\* len(s) of a string given as the lengths of its blank-separated pieces
StrLen(s) == IF s = <<>> THEN 0 ELSE SumSeq(s) + Len(s) - 1

\* Python truthiness of a string
Truthy(s) == StrLen(s) > 0

RECURSIVE LStrip(_)
LStrip(s) == IF s = <<>> THEN <<>>
             ELSE IF Head(s) = 0 THEN LStrip(Tail(s)) ELSE s

RECURSIVE RStrip(_)
RStrip(s) == IF s = <<>> THEN <<>>
             ELSE IF s[Len(s)] = 0 THEN RStrip(SubSeq(s, 1, Len(s) - 1)) ELSE s

\* str.strip(): blanks and newlines at both ends go
Strip(s) == RStrip(LStrip(s))

RECURSIVE Flatten(_)
\* the lines of a text joined by "\n": one string
Flatten(lines) == IF lines = <<>> THEN <<>> ELSE Head(lines) \o Flatten(Tail(lines))

\* len(text) for a text given as its lines
TextLen(lines) == StrLen(Flatten(lines))

\* ------------------------------------------------- smart_split_content
RECURSIVE SplitWords(_, _, _)
\* the `for word in words` loop; st = [parts, cur]
SplitWords(words, i, st) ==
    IF i > Len(words) THEN st
    ELSE LET w == words[i]
             flush == StrLen(st.cur) + w + 1 > max_length /\ Truthy(st.cur)
             parts1 == IF flush THEN Append(st.parts, StrLen(Strip(st.cur))) ELSE st.parts
             cur1 == IF flush THEN <<>> ELSE st.cur
             cur2 == IF Truthy(cur1) THEN cur1 \o <<w>> ELSE <<w>>
         IN SplitWords(words, i + 1, [parts |-> parts1, cur |-> cur2])

RECURSIVE SplitLines(_, _, _)
\* the `for line in lines` loop; st = [parts, cur]
SplitLines(lines, i, st) ==
    IF i > Len(lines) THEN st
    ELSE LET line == lines[i]
             over == StrLen(st.cur) + StrLen(line) + 1 > max_length
             flush == over /\ Truthy(st.cur)
             parts1 == IF flush THEN Append(st.parts, StrLen(Strip(st.cur))) ELSE st.parts
             cur1 == IF flush THEN <<>> ELSE st.cur
             next == IF over
                     THEN IF StrLen(line) > max_length
                          THEN SplitWords(line, 1, [parts |-> parts1, cur |-> cur1])
                          ELSE [parts |-> parts1, cur |-> line]
                     ELSE [parts |-> st.parts,
                           cur |-> IF Truthy(st.cur) THEN st.cur \o line ELSE line]
         IN SplitLines(lines, i + 1, next)

\* the lengths of the parts smart_split_content(text) returns
smart_split_content(lines) ==
    IF TextLen(lines) <= max_length THEN <<TextLen(lines)>>
    ELSE LET st == SplitLines(lines, 1, [parts |-> <<>>, cur |-> <<>>])
         IN IF Truthy(st.cur) THEN Append(st.parts, StrLen(Strip(st.cur))) ELSE st.parts

\* ------------------------------------------------------------------ names
\* str.lower() on one character
Lower(c) == IF c = "A" THEN "a" ELSE IF c = "B" THEN "b" ELSE c

\* name.lower()
LowerName(n) == [i \in DOMAIN n |-> Lower(n[i])]

RECURSIVE StripBlanks(_)
\* name.strip() for a name given as its characters
StripBlanks(n) ==
    IF n = <<>> THEN <<>>
    ELSE IF Head(n) = " " THEN StripBlanks(Tail(n))
    ELSE IF n[Len(n)] = " " THEN StripBlanks(SubSeq(n, 1, Len(n) - 1))
    ELSE n

RECURSIVE MapDrop(_, _)
\* .lower().replace(" ", "-") and the removal of the characters in `drop`
MapDrop(n, drop) ==
    IF n = <<>> THEN <<>>
    ELSE LET c == Lower(Head(n))
         IN IF c \in drop THEN MapDrop(Tail(n), drop)
            ELSE <<IF c = " " THEN "-" ELSE c>> \o MapDrop(Tail(n), drop)

\* send_to_webhook: raw.strip() then .lower().replace(" ", "-").replace("|", "")
SendNorm(n) == MapDrop(StripBlanks(n), {"|"})

\* the lookup key send_to_webhook computes
SendKey(cat, srv, chan) == [cat |-> SendNorm(cat), srv |-> SendNorm(srv), chan |-> SendNorm(chan)]

\* normalize_key: also drops the wide bar everywhere and the bolt in the category
normalize_key(cat, chan, srv) ==
    [cat |-> StripBlanks(MapDrop(cat, {"|", "BAR", "BOLT"})),
     srv |-> StripBlanks(MapDrop(srv, {"|", "BAR"})),
     chan |-> StripBlanks(MapDrop(chan, {"|", "BAR"}))]

\* ------------------------------------------- dates and times in names
Digits == {"0", "1", "2", "3", "4", "5", "7", "9"}
DigitVal(c) ==
    CASE c = "0" -> 0 [] c = "1" -> 1 [] c = "2" -> 2 [] c = "3" -> 3
      [] c = "4" -> 4 [] c = "5" -> 5 [] c = "7" -> 7 [] c = "9" -> 9

\* the characters of the names here that regex \w matches; the box-drawing
\* bar "VBAR", the wide bar "BAR" and the bolt "BOLT" are not among them
WordChars == Digits \cup {"a", "b", "u", "d", "m", "g", "f", "p", "A", "B", "_"}

RECURSIVE KeepChars(_, _)
KeepChars(n, keep) ==
    IF n = <<>> THEN <<>>
    ELSE (IF Head(n) \in keep THEN <<Head(n)>> ELSE <<>>) \o KeepChars(Tail(n), keep)

\* re.sub(r'[^\w\s:-]', '', name.lower())
CleanName(n) == KeepChars(LowerName(n), WordChars \cup {" ", ":", "-"})

\* get_user_display_name: the global name of an account, which Discord does
\* not keep unique; u9 shows as "A b", u8 as "a_b"
get_user_display_name(u) ==
    IF u = "u9" THEN <<"A", " ", "b">>
    ELSE IF u = "u8" THEN <<"a", "_", "b">>
    ELSE <<"u">>

RECURSIVE SingleHyphens(_)
\* re.sub(r'-+', '-', cleaned)
SingleHyphens(n) ==
    IF Len(n) < 2 THEN n
    ELSE IF n[1] = "-" /\ n[2] = "-" THEN SingleHyphens(Tail(n))
    ELSE <<Head(n)>> \o SingleHyphens(Tail(n))

RECURSIVE StripHyphens(_)
\* cleaned.strip('-_')
StripHyphens(n) ==
    IF n = <<>> THEN <<>>
    ELSE IF Head(n) \in {"-", "_"} THEN StripHyphens(Tail(n))
    ELSE IF n[Len(n)] \in {"-", "_"} THEN StripHyphens(SubSeq(n, 1, Len(n) - 1))
    ELSE n

\* normalize_username_for_channel: keep [\w\s\-_], spaces to hyphens and
\* lower case, runs of hyphens to one, underscores to hyphens, strip, and
\* "unknown-user" for what is left empty
normalize_username_for_channel(n) ==
    LET kept == MapDrop(KeepChars(n, WordChars \cup {" ", "-"}), {})
        single == SingleHyphens(kept)
        cleaned == StripHyphens([i \in DOMAIN single |->
                                    IF single[i] = "_" THEN "-" ELSE single[i]])
    IN IF cleaned = <<>>
       THEN <<"u", "n", "k", "n", "o", "w", "n", "-", "u", "s", "e", "r">>
       ELSE cleaned

\* regex \b between s[i-1] and s[i]
WordBoundary(s, i) ==
    (i > 1 /\ i - 1 <= Len(s) /\ s[i - 1] \in WordChars)
        # (i >= 1 /\ i <= Len(s) /\ s[i] \in WordChars)

AllDigits(s, i, n) == i >= 1 /\ i + n - 1 <= Len(s) /\ \A k \in i..(i + n - 1) : s[k] \in Digits

\* int() of the n digits of s from i
Number(s, i, n) == IF n = 1 THEN DigitVal(s[i]) ELSE 10 * DigitVal(s[i]) + DigitVal(s[i + 1])

\* \b(\d{1,2})[-/](\d{1,2})\b matches at i with groups of a and b digits
DateAt(s, i, a, b) ==
    /\ WordBoundary(s, i)
    /\ AllDigits(s, i, a)
    /\ i + a <= Len(s) /\ s[i + a] \in {"-", "/"}
    /\ AllDigits(s, i + a + 1, b)
    /\ WordBoundary(s, i + a + b + 1)

NoMatch == [month |-> 0, day |-> 0]

\* the greedy order in which the groups are tried at one position
GroupOrder == <<(<<2, 2>>), (<<2, 1>>), (<<1, 2>>), (<<1, 1>>)>>

\* the positions and group lengths at which the date pattern matches
DateCandidates(s) ==
    {p \in (DOMAIN s) \X (DOMAIN GroupOrder) :
        DateAt(s, p[1], GroupOrder[p[2]][1], GroupOrder[p[2]][2])}

\* the match a search reports: the leftmost, the first in the greedy order
FirstMatch(pairs) ==
    CHOOSE p \in pairs : \A q \in pairs : p[1] < q[1] \/ (p[1] = q[1] /\ p[2] <= q[2])

\* int(group(1)), int(group(2)) of the match p
DateGroups(s, p) ==
    [month |-> Number(s, p[1], GroupOrder[p[2]][1]),
     day |-> Number(s, p[1] + GroupOrder[p[2]][1] + 1, GroupOrder[p[2]][2])]

\* re.search(r'\b(\d{1,2})[-/](\d{1,2})\b', s): the groups of the match as
\* integers, or NoMatch
DateSearch(s) ==
    IF DateCandidates(s) = {} THEN NoMatch ELSE DateGroups(s, FirstMatch(DateCandidates(s)))

\* datetime(year, month, day) does not raise ValueError (a year of 365 days)
ValidDate(d) ==
    /\ d.month \in 1..12
    /\ d.day >= 1
    /\ d.day <= (IF d.month = 2 THEN 28 ELSE IF d.month \in {4, 6, 9, 11} THEN 30 ELSE 31)

\* one date of a year before another
DateBefore(d, e) == d.month < e.month \/ (d.month = e.month /\ d.day < e.day)

\* \b(\d{1,2})(am|pm)\b matches at i with a digits
TimeAt(s, i, a) ==
    /\ WordBoundary(s, i)
    /\ AllDigits(s, i, a)
    /\ i + a + 1 <= Len(s)
    /\ s[i + a] \in {"a", "p"} /\ s[i + a + 1] = "m"
    /\ WordBoundary(s, i + a + 2)

NoTime == [hour |-> 0 - 1, pm |-> FALSE]

\* the digit counts in the greedy order
DigitOrder == <<2, 1>>

\* the positions and digit counts at which the time pattern matches
TimeCandidates(s) ==
    {p \in (DOMAIN s) \X (DOMAIN DigitOrder) : TimeAt(s, p[1], DigitOrder[p[2]])}

\* the hour and the half of the match p
TimeGroups(s, p) ==
    [hour |-> Number(s, p[1], DigitOrder[p[2]]), pm |-> s[p[1] + DigitOrder[p[2]]] = "p"]

\* re.search(r'\b(\d{1,2})(am|pm)\b', s): the hour and the half of the
\* match, or NoTime
TimeSearch(s) ==
    IF TimeCandidates(s) = {} THEN NoTime ELSE TimeGroups(s, FirstMatch(TimeCandidates(s)))

\* datetime.strptime(text, "%I%p") does not raise: %I is an hour of 1..12
ValidTime(t) == t.hour \in 1..12

\* time_val.hour
Hour24(t) == (t.hour % 12) + (IF t.pm THEN 12 ELSE 0)

\* the days of 2025 before the first of a month
DaysBeforeMonth(m) ==
    CASE m = 1 -> 0 [] m = 2 -> 31 [] m = 3 -> 59 [] m = 4 -> 90 [] m = 5 -> 120
      [] m = 6 -> 151 [] m = 7 -> 181 [] m = 8 -> 212 [] m = 9 -> 243
      [] m = 10 -> 273 [] m = 11 -> 304 [] m = 12 -> 334

\* datetime(2025, month, day).timestamp() on a host `offset` hours east of
\* UTC: seconds since 1970
Timestamp(d, offset) ==
    1735689600 + (DaysBeforeMonth(d.month) + d.day - 1) * 86400 - offset * 3600

\* the calendar days the clock of the host goes through: 05-01, then 05-02
Days == <<[month |-> 5, day |-> 1], [month |-> 5, day |-> 2]>>

\* ----------------------------------------------------------------- domain
Tokens == {"T1", "T2"}
\* the order of the keys of "tokens" in config.json (dicts keep insertion order)
TokenOrder == <<"T1", "T2">>
Servers == {"S1", "S2"}
NoToken == "none"

\* config.json "tokens": per token the servers it lists, with the exclusion
\* sets of each, and the user the session logs in as
TokensA ==
    [t \in Tokens |->
        IF t = "T1"
        THEN [servers |-> {"S1"},
              excluded_categories |-> [s \in Servers |-> {}],
              excluded_channels |-> [s \in Servers |-> {}],
              user_id |-> "u1", dm_enabled |-> TRUE]
        ELSE [servers |-> {"S1", "S2"},
              excluded_categories |-> [s \in Servers |-> IF s = "S1" THEN {"c11"} ELSE {}],
              excluded_channels |-> [s \in Servers |-> IF s = "S1" THEN {13} ELSE {}],
              user_id |-> "u2", dm_enabled |-> FALSE]]

\* a second file: the two tokens list disjoint servers
TokensB ==
    [t \in Tokens |->
        IF t = "T1"
        THEN [servers |-> {"S1"},
              excluded_categories |-> [s \in Servers |-> IF s = "S1" THEN {"c11"} ELSE {}],
              excluded_channels |-> [s \in Servers |-> {}],
              user_id |-> "u1", dm_enabled |-> TRUE]
        ELSE [servers |-> {"S2"},
              excluded_categories |-> [s \in Servers |-> {}],
              excluded_channels |-> [s \in Servers |-> {}],
              user_id |-> "u2", dm_enabled |-> FALSE]]

TokenFiles == {TokensA, TokensB}

\* the source text channels: guild, category (id and name) and name
SrcChannels == {11, 12, 13, 15, 16}
SrcChannel(c) ==
    CASE c = 11 -> [server |-> "S1", category |-> "c10",
                       category_name |-> <<"A">>, name |-> <<"a", " ", "b">>]
      [] c = 12 -> [server |-> "S1", category |-> "c11",
                       category_name |-> <<"B">>, name |-> <<"b", "BAR">>]
      [] c = 13 -> [server |-> "S1", category |-> "c10",
                       category_name |-> <<"A">>, name |-> <<"a">>]
      [] c = 15 -> [server |-> "S1", category |-> "c10",
                       category_name |-> <<"A">>, name |-> <<"9", "a", "m">>]
      [] c = 16 -> [server |-> "S1", category |-> "c10",
                       category_name |-> <<"A">>, name |-> <<"0", "5", "-", "0", "1">>]
ServerName(s) == IF s = "S1" THEN <<"A", "|">> ELSE <<"B">>

\* message texts: one short line; two lines that do not fit one part; one
\* unbroken word longer than a part; the empty text
TextShort == <<(<<5>>)>>
TextTwo == <<(<<1500>>), (<<1500>>)>>
TextWord == <<(<<2001>>)>>
TextEmpty == <<(<<0>>)>>

\* the MESSAGE_CREATE events of the gateway: what discord.Message carries
MsgIds == {"m1", "m2", "m3", "m4", "m5", "m6", "m7", "m8", "m9"}
Msg(m) ==
    CASE m = "m1" -> [type |-> "regular", channel |-> 11, author |-> "alice",
                      bot |-> FALSE, content |-> TextShort, attachments |-> 0,
                      posted_by |-> FALSE, self |-> NoToken,
                      says |-> "text", embed_title |-> "none", url_len |-> 60]
      [] m = "m2" -> [type |-> "regular", channel |-> 12, author |-> "bob",
                      bot |-> FALSE, content |-> TextTwo, attachments |-> 1,
                      posted_by |-> FALSE, self |-> NoToken,
                      says |-> "text", embed_title |-> "none", url_len |-> 60]
      [] m = "m3" -> [type |-> "regular", channel |-> 13, author |-> "alice",
                      bot |-> FALSE, content |-> TextWord, attachments |-> 1,
                      posted_by |-> FALSE, self |-> NoToken,
                      says |-> "text", embed_title |-> "none", url_len |-> 60]
      [] m = "m4" -> [type |-> "dm", channel |-> 14, author |-> "u9",
                      bot |-> FALSE, content |-> TextShort, attachments |-> 0,
                      posted_by |-> FALSE, self |-> "T1",
                      says |-> "text", embed_title |-> "none", url_len |-> 60]
      \* Polar Helper posts an embed titled "Channel Archive", no content
      [] m = "m5" -> [type |-> "regular", channel |-> 11, author |-> "Polar Helper#6493",
                      bot |-> TRUE, content |-> TextEmpty, attachments |-> 0,
                      posted_by |-> FALSE, self |-> NoToken,
                      says |-> "empty", embed_title |-> "channel archive", url_len |-> 60]
      \* a member types "!archive"
      [] m = "m6" -> [type |-> "regular", channel |-> 11, author |-> "alice",
                      bot |-> FALSE, content |-> TextShort, attachments |-> 0,
                      posted_by |-> FALSE, self |-> NoToken,
                      says |-> "!archive", embed_title |-> "none", url_len |-> 60]
      \* Polar Helper posts the content "channel archive"
      [] m = "m7" -> [type |-> "regular", channel |-> 11, author |-> "Polar Helper#6493",
                      bot |-> TRUE, content |-> TextShort, attachments |-> 0,
                      posted_by |-> FALSE, self |-> NoToken,
                      says |-> "channel archive", embed_title |-> "none", url_len |-> 60]

      \* a second plain message in the channel of m1
      [] m = "m8" -> [type |-> "regular", channel |-> 11, author |-> "bob",
                      bot |-> FALSE, content |-> TextShort, attachments |-> 0,
                      posted_by |-> FALSE, self |-> NoToken,
                      says |-> "text", embed_title |-> "none", url_len |-> 60]
      \* a DM to the same account from a second peer
      [] m = "m9" -> [type |-> "dm", channel |-> 17, author |-> "u8",
                      bot |-> FALSE, content |-> TextShort, attachments |-> 0,
                      posted_by |-> FALSE, self |-> "T1",
                      says |-> "text", embed_title |-> "none", url_len |-> 60]

\* ------------------------------------------------------------------ state
VARIABLES
    TOKENS,                 \* main.py: the collectors' snapshot of config["tokens"]
    monitored_servers,      \* MirrorSelfBot.monitored_servers, per token
    events,                 \* gateway events delivered so far
    lpushed,                \* per token and message: LPUSHes done by that collector
    http,                   \* per message: POSTs to /process_message in flight
    monitor,                \* the text channels the source guild lists, the
                            \* monitored_channels of monitor_deleted_channels, the
                            \* delete_channel events sent, and when a channel went
    login,                  \* per token: try_start_bot's `attempts`, where the task
                            \* is, the status the collector gave the token, and whether a
                            \* LoginFailure was raised for it
    watch,                  \* main.py: the tokens in the collectors' config.json, the
                            \* seconds since main() started, ConfigFileHandler's
                            \* last_modified, config_reload_flag, and when the loop
                            \* of main() next wakes
    message_queue,          \* the Redis list "message_queue", head first
    pc,                     \* the consumer: "start", "idle", or "post" inside send_to_webhook
    cur,                    \* locals of the running send_to_webhook
    recent_message_ids,     \* bot.py global
    polar_deleted_channels, \* bot.py global
    archive,                \* the ids the archive branches gave bot.get_channel, and
                            \* the ids of the channels they deleted
    WEBHOOKS,               \* bot.py global: route key -> webhook url
    redis_webhooks,         \* the Redis hash "webhooks"
    webhook_cache,          \* bot.webhook_cache
    DM_MAPPINGS,            \* bot.py global: destination channel id -> DMRoute
    config,                 \* bot.py global `config`, the dict loaded at import
    cfgFile,                \* config.json on disk, which both processes open by the
                            \* same relative name
    channels,               \* the destination guild's text channels
    next_id,                \* ids the destination guild has handed out
    lastPost,               \* the last POST of the message last popped, and its response
    popped,                 \* the ids process_redis_messages has RPOPped, in order
    delivered,              \* per message: runs whose first part got a 2xx
    deleted_by_retention,   \* channel ids deleted by cleanup_expired_channels
    protected_by_cmd,       \* ids added by /protect and not since removed by /unprotect
    cmds,                   \* /protect and /unprotect commands so far
    creating,               \* create_channel_and_webhook calls of the other consumer
                            \* tasks, suspended in guild.create_text_channel
    consumers,              \* process_redis_messages tasks on_ready has created
    R_TOKENS,               \* bot.py global TOKENS, read once at import
    channel_created,        \* channel ids with a Redis key channel_created_<id>
    today,                  \* the index in Days of the host's calendar day
    world                   \* what the environment does in this behaviour

collectorVars == <<TOKENS, monitored_servers, events, lpushed, http, watch, login,
                   monitor>>
senderVars == <<pc, cur, lastPost, delivered, popped>>
routeVars == <<WEBHOOKS, redis_webhooks, webhook_cache, DM_MAPPINGS, R_TOKENS>>
dedupVars == <<recent_message_ids, polar_deleted_channels, archive>>
fileVars == <<config, cfgFile>>
guildVars == <<channels, next_id, deleted_by_retention, channel_created, today>>
cmdVars == <<protected_by_cmd, cmds, consumers, world, creating>>
vars == <<collectorVars, message_queue, senderVars, routeVars, dedupVars, fileVars,
          guildVars, cmdVars>>

NoKey == [cat |-> <<>>, srv |-> <<>>, chan |-> <<>>]
\* no send_to_webhook is running; `payload` is the content length the local
\* payload dict held when the last attempt ended
NoCur == [mid |-> "none", parts |-> <<>>, part_idx |-> 0, attempt |-> 0,
          files |-> FALSE, embeds |-> FALSE, key |-> NoKey, url |-> 0, payload |-> 0]
\* no POST yet; prev_status is the response to the POST before it when that
\* one carried the same part in the same run, slept the seconds slept after it
NoPost == [mid |-> "none", part_idx |-> 0, len |-> 0, multipart |-> FALSE,
           status |-> "none", prev_status |-> "none", attempt |-> 0,
           key |-> NoKey, url |-> 0, slept |-> 0]

\* ------------------------------------------------------------- collector
\* get_monitored_server_ids(): every server some token lists
get_monitored_server_ids(toks) == UNION {toks[t].servers : t \in Tokens}

RECURSIVE FirstListing(_, _, _)
\* `for token_data in TOKENS.values(): if server_id in token_data["servers"]`
FirstListing(toks, s, i) ==
    IF i > Len(TokenOrder) THEN NoToken
    ELSE IF s \in toks[TokenOrder[i]].servers THEN TokenOrder[i]
    ELSE FirstListing(toks, s, i + 1)

get_excluded_categories(toks, s) ==
    LET t == FirstListing(toks, s, 1)
    IN IF t = NoToken THEN {} ELSE toks[t].excluded_categories[s]

get_excluded_channels(toks, s) ==
    LET t == FirstListing(toks, s, 1)
    IN IF t = NoToken THEN {} ELSE toks[t].excluded_channels[s]

\* on_message up to the ACCEPTED log line, for a guild message
GuildAccepted(t, m) ==
    LET msg == Msg(m)
        ch == SrcChannel(msg.channel)
    IN /\ ~(msg.bot /\ msg.posted_by /\ msg.attachments > 0)
       /\ ch.server \in monitored_servers[t]
       /\ ch.category \notin get_excluded_categories(TOKENS, ch.server)
       /\ msg.channel \notin get_excluded_channels(TOKENS, ch.server)

\* handle_dm_message up to the payload: mirroring on, not self, and the
\* sender passes is_allowed_bot / should_allow_dm (`allowed`, decided by
\* names and mutual guilds the model does not carry)
DmAccepted(t, m, allowed) ==
    /\ TOKENS[t].dm_enabled
    /\ Msg(m).author # TOKENS[t].user_id
    /\ allowed

\* redis_client.lpush(name, payload): LPUSH puts the payload at the head
LPush(q, m) == <<m>> \o q

\* bot.py: QUEUE_NAME = args.queue, the list process_redis_messages pops. The
\* collectors and /process_message push on the list "message_queue"; a list
\* of another name is one the program never pushes on, and RPOP finds it empty
QUEUE_NAME == world.queue

\* MirrorSelfBot.on_message for a guild message m seen by the session of t
\* (Redis is up: the LPUSH does not raise)
OnMessage(t, m) ==
    /\ events < MaxEvents
    /\ t \in world.tokens
    /\ m \in world.msgs
    /\ Msg(m).type = "regular"
    /\ events' = events + 1
    /\ IF GuildAccepted(t, m)
       THEN /\ message_queue' = LPush(message_queue, m)
            /\ lpushed' = [lpushed EXCEPT ![t][m] = @ + 1]
            /\ http' = [http EXCEPT ![m] = @ + 1]
       ELSE UNCHANGED <<message_queue, lpushed, http>>
    /\ UNCHANGED <<TOKENS, monitored_servers, watch, login, monitor, senderVars, routeVars, dedupVars,
                   fileVars, guildVars, cmdVars>>

\* MirrorSelfBot.on_message -> handle_dm_message for a DM m to the session of t
OnDirectMessage(t, m) ==
    /\ events < MaxEvents
    /\ t \in world.tokens
    /\ m \in world.msgs
    /\ Msg(m).type = "dm"
    /\ Msg(m).self = t
    /\ events' = events + 1
    /\ \E allowed \in BOOLEAN :
         IF DmAccepted(t, m, allowed)
         THEN /\ message_queue' = LPush(message_queue, m)
              /\ lpushed' = [lpushed EXCEPT ![t][m] = @ + 1]
         ELSE UNCHANGED <<message_queue, lpushed>>
    /\ UNCHANGED <<TOKENS, monitored_servers, http, watch, login, monitor, senderVars, routeVars,
                   dedupVars, fileVars, guildVars, cmdVars>>

\* bot.py process_message: the POST of send_to_destination arrives and is
\* pushed on "message_queue"; the collector gets its 200
ProcessMessage(m) ==
    /\ http[m] > 0
    /\ http' = [http EXCEPT ![m] = @ - 1]
    /\ message_queue' = LPush(message_queue, m)
    /\ UNCHANGED <<TOKENS, monitored_servers, events, lpushed, watch, login, monitor, senderVars,
                   routeVars, dedupVars, fileVars, guildVars, cmdVars>>

\* -------------------------------------------------------- config watcher
\* `current_time - self.last_modified < 1`, and asyncio.sleep(5) in main()
DebounceSecs == 1
PollSecs == 5

\* what json.load and the subscripts of reload_config_dynamically find in
\* config.json: a file they read through, text that does not parse, or a
\* document with "tokens" and no "settings"
ConfigShapes == {"ok", "malformed", "no_settings"}

\* config.json is written with the tokens f in the given shape and
\* ConfigFileHandler.on_modified runs: within the debounce window it returns,
\* else it notes the time and sets config_reload_flag (`changed` and `mods`
\* record the write)
ModifyConfig(f, shape) ==
    /\ watch.mods < MaxMods
    /\ <<f, shape>> # <<watch.file, watch.shape>>
    /\ watch' = IF watch.now - watch.last_modified < DebounceSecs
                THEN [watch EXCEPT !.file = f, !.shape = shape,
                                   !.changed = watch.now, !.mods = @ + 1]
                ELSE [watch EXCEPT !.file = f, !.shape = shape,
                                   !.changed = watch.now, !.mods = @ + 1,
                                   !.last_modified = watch.now,
                                   !.config_reload_flag = TRUE]
    /\ UNCHANGED <<TOKENS, monitored_servers, events, lpushed, http, login, monitor,
                   message_queue, senderVars, routeVars, dedupVars, fileVars, guildVars,
                   cmdVars>>

\* the servers get_server_info is asked for at the end of a reload, which
\* caches their names: those a token lists with an exclusion
ServersLogged(toks) ==
    {s \in Servers : \E t \in Tokens :
        /\ s \in toks[t].servers
        /\ toks[t].excluded_channels[s] # {} \/ toks[t].excluded_categories[s] # {}}

\* reload_config_dynamically on the file as it is: server_name_cache.clear()
\* comes first, load_config() raises on text that does not parse, TOKENS is
\* rebound before new_config["settings"] raises KeyError, and the except
\* clause logs whatever was raised
Reloaded(file, shape) ==
    [TOKENS |-> IF shape = "malformed" THEN TOKENS ELSE file,
     monitored_servers |-> IF shape = "ok"
                           THEN [t \in Tokens |-> get_monitored_server_ids(file)]
                           ELSE monitored_servers,
     server_name_cache |-> IF shape = "ok" THEN ServersLogged(file) ELSE {}]

\* the `while True` loop of main() wakes from its sleep: with the flag set it
\* resets it and runs reload_config_dynamically
MainLoop ==
    /\ watch.now = watch.wake
    /\ IF watch.config_reload_flag
       THEN /\ TOKENS' = Reloaded(watch.file, watch.shape).TOKENS
            /\ monitored_servers' = Reloaded(watch.file, watch.shape).monitored_servers
            /\ watch' = [watch EXCEPT
                   !.wake = @ + PollSecs, !.config_reload_flag = FALSE,
                   !.server_name_cache = Reloaded(watch.file, watch.shape).server_name_cache]
       ELSE /\ watch' = [watch EXCEPT !.wake = @ + PollSecs]
            /\ UNCHANGED <<TOKENS, monitored_servers>>
    /\ UNCHANGED <<events, lpushed, http, login, monitor, message_queue, senderVars,
                   routeVars, dedupVars, fileVars, guildVars, cmdVars>>

\* the tasks main() creates, per token and for the process
MainTasks == {"try_start_bot", "start_dm_relay_service", "process_dm_relay_queue",
              "share_bot_instances_periodically"}

\* `await asyncio.sleep(10)` of monitor_deleted_channels
MonitorSecs == 10

\* is_time_or_date_based
is_time_or_date_based(name) ==
    DateSearch(CleanName(name)) # NoMatch \/ TimeSearch(CleanName(name)) # NoTime

\* send_channel_delete: self.get_server_real_name and self.clean_channel_name
\* are not attributes of MirrorSelfBot, so the call raises before it sends
send_channel_delete == "AttributeError"

\* one pass of the loop of monitor_deleted_channels: a monitored channel
\* missing from the listing is reported and forgotten, unless reporting it
\* raises, which ends the pass in the except clause
MonitorPass(mon) ==
    LET missing == mon.monitored_channels \ mon.live
    IN IF missing = {} \/ send_channel_delete = "AttributeError" THEN mon
       ELSE [mon EXCEPT !.sent = @ \cup missing, !.monitored_channels = @ \ missing]

\* the monitor as it is when the clock shows `now`: a pass every ten seconds
\* where the task was created
Monitored(mon, now) ==
    IF "monitor_deleted_channels" \in MainTasks /\ now % MonitorSecs = 0
    THEN MonitorPass(mon) ELSE mon

\* a second passes; the loop of main() does not oversleep
Tick ==
    /\ watch.now < MaxClock
    /\ watch.now < watch.wake
    /\ watch' = [watch EXCEPT !.now = @ + 1]
    /\ monitor' = Monitored(monitor, watch.now + 1)
    /\ UNCHANGED <<TOKENS, monitored_servers, events, lpushed, http, login, message_queue,
                   senderVars, routeVars, dedupVars, fileVars, guildVars, cmdVars>>

\* the source guild deletes the text channel c
ChannelDeleted(c) ==
    /\ c \in monitor.live
    /\ Cardinality(SrcChannels \ monitor.live) < MaxDeleted
    /\ monitor' = [monitor EXCEPT !.live = @ \ {c}, !.gone_at[c] = watch.now]
    /\ UNCHANGED <<TOKENS, monitored_servers, events, lpushed, http, watch, login,
                   message_queue, senderVars, routeVars, dedupVars, fileVars, guildVars,
                   cmdVars>>

\* ---------------------------------------------------------- try_start_bot
\* config["settings"].get("max_login_attempts", 3)
MAX_LOGIN_ATTEMPTS == 3

\* what `await bot_instance.start(token)` does: the session runs, start()
\* raises LoginFailure with a message that holds "improper token" or "401",
\* LoginFailure with another message, or another exception
StartOutcomes == {"runs", "improper_token", "login_failure", "exception"}

\* one pass of `while attempts < max_attempts` for the token t, from
\* `attempts += 1` to the next test of the loop: mark_token_as_failed and
\* break for an improper token; nothing for another LoginFailure; for
\* another exception the sleep, or mark_token_as_failed at the last attempt
AfterStart(l, outcome) ==
    LET n == l.attempts + 1
        again == IF n < MAX_LOGIN_ATTEMPTS THEN "starting" ELSE "stopped"
    IN IF outcome = "runs"
       THEN [l EXCEPT !.attempts = n, !.state = "running"]
       ELSE IF outcome = "improper_token"
       THEN [l EXCEPT !.attempts = n, !.state = "stopped", !.status = "failed",
                      !.login_failure = TRUE]
       ELSE IF outcome = "login_failure"
       THEN [l EXCEPT !.attempts = n, !.state = again, !.login_failure = TRUE]
       ELSE [l EXCEPT !.attempts = n, !.state = again,
                      !.status = IF n < MAX_LOGIN_ATTEMPTS THEN @ ELSE "failed"]

\* mark_token_as_failed: load_config(), status = "failed" for the token,
\* save_config: the rest of the file is written back as it was read
mark_token_as_failed(file, t) == [file EXCEPT !.status[t] = "failed"]

TryStartBot(t, outcome) ==
    /\ login[t].state = "starting"
    /\ login' = [login EXCEPT ![t] = AfterStart(@, outcome)]
    /\ cfgFile' = IF AfterStart(login[t], outcome).status = "failed"
                  THEN mark_token_as_failed(cfgFile, t) ELSE cfgFile
    /\ UNCHANGED <<TOKENS, monitored_servers, events, lpushed, http, watch, monitor,
                   message_queue, senderVars, routeVars, dedupVars, config, guildVars,
                   cmdVars>>

\* the session of t ends: start() returns, or raises what is not a
\* LoginFailure, and the loop goes on from there
SessionEnds(t, raised) ==
    /\ login[t].state = "running"
    /\ login' = [login EXCEPT
           ![t].state = IF login[t].attempts < MAX_LOGIN_ATTEMPTS
                        THEN "starting" ELSE "stopped",
           ![t].status = IF raised /\ login[t].attempts >= MAX_LOGIN_ATTEMPTS
                         THEN "failed" ELSE @]
    /\ cfgFile' = IF raised /\ login[t].attempts >= MAX_LOGIN_ATTEMPTS
                  THEN mark_token_as_failed(cfgFile, t) ELSE cfgFile
    /\ UNCHANGED <<TOKENS, monitored_servers, events, lpushed, http, watch, monitor,
                   message_queue, senderVars, routeVars, dedupVars, config, guildVars,
                   cmdVars>>

\* --------------------------------------------------------------- payload
Uncategorized == <<"u">>

\* the message_data dict on_message / handle_dm_message builds (the fields
\* the republisher reads): embeds_title is embeds[0]["title"]; the dict has
\* no key "embed_title", so message_data.get("embed_title") gives None
NormalizedMessage(m) ==
    LET msg == Msg(m)
    IN IF msg.type = "dm"
       THEN [message_id |-> m, message_type |-> "dm", channel_id |-> msg.channel,
             category_name |-> <<"d">>, server_name |-> <<"d">>,
             channel_name |-> <<"d", "m", "-">> \o normalize_username_for_channel(
                                  get_user_display_name(msg.author)),
             author_name |-> msg.author,
             content |-> msg.content, attachments |-> msg.attachments,
             embeds |-> msg.embed_title # "none" \/ msg.attachments > 0,
             embeds_title |-> msg.embed_title, embed_title |-> "none",
             says |-> msg.says,
             url_len |-> msg.url_len,
             dm_user_id |-> msg.author, receiving_token |-> msg.self]
       ELSE LET ch == SrcChannel(msg.channel)
            IN [message_id |-> m, message_type |-> "regular", channel_id |-> msg.channel,
                category_name |-> ch.category_name, server_name |-> ServerName(ch.server),
                channel_name |-> ch.name, author_name |-> msg.author,
                content |-> msg.content, attachments |-> msg.attachments,
                embeds |-> msg.embed_title # "none" \/ msg.attachments > 0,
             embeds_title |-> msg.embed_title, embed_title |-> "none",
             says |-> msg.says,
                url_len |-> msg.url_len,
                dm_user_id |-> "none", receiving_token |-> NoToken]

\* ----------------------------------------------------------- small maps
Put(f, k, v) == [x \in DOMAIN f \cup {k} |-> IF x = k THEN v ELSE f[x]]
Del(f, k) == [x \in DOMAIN f \ {k} |-> f[x]]
EmptyMap == [x \in {} |-> 0]

\* ------------------------------------------------------------ config.json
\* module-level save_config(config) of bot.py: the whole in-memory dict
\* replaces the file
SaveGlobalConfig(cfg) == cfg

\* DestinationBot.save_config: config["webhooks"] = self.webhook_cache,
\* config["dm_mappings"] = DM_MAPPINGS, then save_config(config)
BotSaveConfig(cfg, cache, dms) ==
    [cfg EXCEPT !.webhooks = DOMAIN cache, !.dm_mappings = DOMAIN dms]

\* ------------------------------------------------------ destination guild
GuildName == <<"g">>
NoCategory == "none"
DmCategory == "dm"
\* a category of an earlier layout, named for a server: "A [a]"
TaggedCategory == "tagged"

\* category.name; the other categories are named by their ids
CategoryName(cat) == IF cat = TaggedCategory THEN <<"A", " ", "[", "a", "]">> ELSE <<cat>>

\* the text of a destination channel's name, "{channel} [{server}]"
DestName(c) == c.chan \o <<" ", "[">> \o c.srv \o <<"]">>

\* channel.name: a channel never named for a server has no tag
ChannelName(c) == IF c.srv = <<>> THEN c.chan ELSE DestName(c)

\* category.channels: the channels of a category by position, then id
Before(a, b) == a.pos < b.pos \/ (a.pos = b.pos /\ a.id < b.id)

\* the channels `cs` as a list in that order
InOrder(cs) ==
    [r \in 1..Cardinality(cs) |->
        CHOOSE c \in cs : Cardinality({d \in cs : Before(d, c)}) = r - 1]

\* ensure_webhooks: the key it files an existing channel under
EnsureKey(c) ==
    normalize_key(IF c.cat = NoCategory THEN Uncategorized ELSE MapDrop(CategoryName(c.cat), {"|"}),
                  MapDrop(ChannelName(c), {"|"}), MapDrop(GuildName, {"|"}))

RECURSIVE AfterLast(_, _)
\* name.split(ch)[-1]
AfterLast(n, ch) ==
    IF n = <<>> THEN <<>>
    ELSE IF n[Len(n)] = ch THEN <<>>
    ELSE AfterLast(SubSeq(n, 1, Len(n) - 1), ch) \o <<n[Len(n)]>>

RECURSIVE BeforeFirst(_, _)
\* name.split(ch)[0]
BeforeFirst(n, ch) ==
    IF n = <<>> THEN <<>>
    ELSE IF Head(n) = ch THEN <<>>
    ELSE <<Head(n)>> \o BeforeFirst(Tail(n), ch)

\* `part in name`
Contains(n, part) ==
    \E i \in 0..(Len(n) - Len(part)) : SubSeq(n, i + 1, i + Len(part)) = part

\* name.endswith(part)
EndsWith(n, part) ==
    Len(part) <= Len(n) /\ SubSeq(n, Len(n) - Len(part) + 1, Len(n)) = part

\* "[" in category.name and "]" in category.name
HasTag(n) == Contains(n, <<"[">>) /\ Contains(n, <<"]">>)

\* category.name.split("[")[-1].split("]")[0].strip()
ServerTag(n) == StripBlanks(BeforeFirst(AfterLast(n, "["), "]"))

RECURSIVE SingleSpaces(_)
\* .replace("  ", " ")
SingleSpaces(n) ==
    IF Len(n) < 2 THEN n
    ELSE IF n[1] = " " /\ n[2] = " " THEN <<" ">> \o SingleSpaces(SubSeq(n, 3, Len(n)))
    ELSE <<Head(n)>> \o SingleSpaces(Tail(n))

\* normalize_category: re.sub(r"[^\w\s\[\]\-()]", "", name), lower, strip
normalize_category(n) ==
    StripBlanks(SingleSpaces(LowerName(
        KeepChars(n, WordChars \cup {" ", "[", "]", "-", "(", ")"}))))

\* the body of the channel loop of migrate_channels_to_uncategorized for one
\* channel of a category tagged `tag`; st = [channels, WEBHOOKS,
\* redis_webhooks]; channel.edit raises for the ids in `fails`; `stale`: the
\* cached channel.name is still the old name when the key is computed
MigrateChannel(st, c, cat, tag, fails, stale) ==
    LET name == ChannelName(c)
        new_name == name \o <<" ", "[">> \o tag \o <<"]">>
        conflict == \E d \in st.channels : LowerName(ChannelName(d)) = LowerName(new_name)
        renamed == [c EXCEPT !.chan = name, !.srv = tag, !.cat = NoCategory]
        srv == StripBlanks(LowerName(tag))
        old_key == normalize_key(normalize_category(CategoryName(cat)),
                                 IF stale THEN name ELSE new_name, srv)
        new_key == normalize_key(Uncategorized, new_name, srv)
        moved(f) == Put(Del(f, old_key), new_key, st.WEBHOOKS[old_key])
    IN IF \/ EndsWith(name, <<"[">> \o LowerName(tag) \o <<"]">>)
          \/ Contains(name, <<"[">> \o tag \o <<"]">>)
       THEN st
       ELSE IF conflict \/ c.id \in fails THEN st
       ELSE [channels |-> (st.channels \ {c}) \cup {renamed},
             WEBHOOKS |-> IF old_key \in DOMAIN st.WEBHOOKS THEN moved(st.WEBHOOKS)
                          ELSE st.WEBHOOKS,
             redis_webhooks |-> IF old_key \in DOMAIN st.WEBHOOKS
                                THEN Put(st.redis_webhooks, new_key, st.WEBHOOKS[old_key])
                                ELSE st.redis_webhooks]

RECURSIVE MigrateList(_, _, _, _, _, _)
\* `for channel in category.channels` from the i-th on
MigrateList(st, cat, list, i, fails, stale) ==
    IF i > Len(list) THEN st
    ELSE MigrateList(
             MigrateChannel(st, list[i], cat, ServerTag(CategoryName(cat)), fails, stale),
             cat, list, i + 1, fails, stale)

RECURSIVE migrate_channels_to_uncategorized(_, _, _, _, _)
\* `for category in guild.categories` (no ignored_category_tags configured):
\* every category that is not "[DM]" and whose name carries a tag
migrate_channels_to_uncategorized(st, order, i, fails, stale) ==
    IF i > Len(order) THEN st
    ELSE LET cat == order[i]
             st1 == IF cat = DmCategory \/ ~HasTag(CategoryName(cat)) THEN st
                    ELSE MigrateList(st, cat, InOrder({c \in st.channels : c.cat = cat}),
                                     1, fails, stale)
         IN migrate_channels_to_uncategorized(st1, order, i + 1, fails, stale)

\* guild.categories
GuildCategories ==
    <<TaggedCategory, RELEASE_GUIDES_CATEGORY_ID, DAILY_SCHEDULE_CATEGORY_ID, DmCategory>>

\* DestinationBot.on_ready: refresh webhook_cache from Redis, ensure_webhooks,
\* migrate_channels_to_uncategorized, save_config, and create the consumer
\* task (with the other loops)
OnReady ==
    /\ consumers < MaxReady
    /\ \E fails \in SUBSET {c.id : c \in {x \in channels : HasTag(CategoryName(x.cat))}},
          stale \in BOOLEAN :
         LET cache == redis_webhooks
             missing == {c \in channels :
                            c.cat # DmCategory /\ EnsureKey(c) \notin DOMAIN cache}
             add(f) == [k \in DOMAIN f \cup {EnsureKey(c) : c \in missing} |->
                          IF \E c \in missing : EnsureKey(c) = k
                          THEN (CHOOSE c \in missing : EnsureKey(c) = k).id
                          ELSE f[k]]
             mg == migrate_channels_to_uncategorized(
                       [channels |-> channels, WEBHOOKS |-> add(WEBHOOKS),
                        redis_webhooks |-> add(redis_webhooks)],
                       GuildCategories, 1, fails, stale)
         IN /\ webhook_cache' = cache
            /\ WEBHOOKS' = mg.WEBHOOKS
            /\ redis_webhooks' = mg.redis_webhooks
            /\ channels' = mg.channels
            /\ config' = BotSaveConfig(config, cache, DM_MAPPINGS)
            /\ cfgFile' = SaveGlobalConfig(config')
    /\ consumers' = consumers + 1
    /\ pc' = IF pc \in {"start", "ended"} THEN "idle" ELSE pc
    /\ UNCHANGED <<collectorVars, message_queue, cur, lastPost, delivered, popped,
                   DM_MAPPINGS, R_TOKENS, dedupVars, next_id, deleted_by_retention,
                   channel_created, today, protected_by_cmd, cmds, world, creating>>

\* -------------------------------------------------- cleanup_dead_webhooks
\* the map without the keys in ks
DelAll(f, ks) == [x \in DOMAIN f \ ks |-> f[x]]

\* what requests.head(webhook_url, timeout=5) gives: a status code, or a
\* requests.RequestException (a timeout, a refused or reset connection)
HeadOutcomes == {"200", "401", "403", "404", "RequestException"}

\* to_delete after the loop over config["webhooks"]: the keys whose HEAD
\* answered 404, 401 or 403, whatever the body, and the keys whose HEAD raised
ToDelete(heads) ==
    {k \in DOMAIN heads : heads[k] \in {"404", "401", "403", "RequestException"}}

\* one pass of schedule_cleanup: HEAD every URL of config["webhooks"]; the
\* keys in `dead` are to_delete and are
\* popped from config["webhooks"] and deleted from the Redis hash, and the
\* config is saved. config["webhooks"] is the dict WEBHOOKS was bound to
\* until DestinationBot.save_config rebinds it to webhook_cache, which the
\* first on_ready does
CleanupDeadWebhooks(dead) ==
    /\ dead \subseteq config.webhooks
    /\ config' = [config EXCEPT !.webhooks = @ \ dead]
    /\ cfgFile' = IF dead # {} THEN SaveGlobalConfig(config') ELSE cfgFile
    /\ redis_webhooks' = DelAll(redis_webhooks, dead)
    /\ IF consumers = 0
       THEN WEBHOOKS' = DelAll(WEBHOOKS, dead) /\ UNCHANGED webhook_cache
       ELSE webhook_cache' = DelAll(webhook_cache, dead) /\ UNCHANGED WEBHOOKS
    /\ UNCHANGED <<collectorVars, message_queue, senderVars, DM_MAPPINGS, R_TOKENS,
                   dedupVars, guildVars, cmdVars>>

\* -------------------------------------------------------- send_to_webhook
\* the Polar Helper condition, on the top-level embed_title and the content
PolarTrigger(md) ==
    /\ md.author_name = "Polar Helper#6493"
    /\ md.embed_title = "channel archive" \/ md.says = "channel archive"

\* the archive command condition
ArchiveTrigger(md) ==
    \/ md.says \in {"!archive", "channel archive", "archived to forum thread"}
    \/ md.embed_title = "channel archive"

\* bot.get_channel(int(message_data["channel_id"]))
GetChannel(id) == {c \in channels : c.id = id}

\* `len(recent_message_ids) > 1000` with the bound standing for 1000
RecentFull(ids) == Cardinality(ids) > MaxRecent

\* recent_message_ids.add(message_id), then set.pop() when over the bound:
\* pop() removes an arbitrary element, `victim`
RecordRecent(ids, m, victim) ==
    IF RecentFull(ids \cup {m}) THEN (ids \cup {m}) \ {victim} ELSE ids \cup {m}

\* content_parts after the attachment loop: an attachment that stays too
\* large puts a link line on the first part
WithLargeFileLink(parts, url_len) ==
    LET link == 18 + url_len
    IN [parts EXCEPT ![1] = IF @ > 0 THEN @ + 1 + link ELSE link]

\* content_parts = smart_split_content(content) if content else [""]
ContentParts(lines) == IF TextLen(lines) > 0 THEN smart_split_content(lines) ELSE <<0>>

\* create_channel_and_webhook on names send_to_webhook has normalised (no
\* forum mapping matches): reuse the channel named for (channel, server) or
\* create it, take its webhook, file the route under normalize_key
Provision(md, chanOk, hookOk) ==
    LET cat == SendNorm(md.category_name)
        chan == SendNorm(md.channel_name)
        srv == SendNorm(md.server_name)
        key == normalize_key(cat, chan, srv)
        existing == {c \in channels : c.chan = chan /\ c.srv = srv /\ c.cat # DmCategory}
        create == existing = {} /\ chanOk /\ next_id < MaxChan
        made == [id |-> next_id + 1, chan |-> chan, srv |-> srv, cat |-> NoCategory,
                 age |-> 0, pos |-> next_id + 1]
        target == IF existing # {} THEN (CHOOSE c \in existing : TRUE).id
                  ELSE IF create THEN made.id ELSE 0
        ok == target # 0 /\ hookOk
    IN [url |-> IF ok THEN target ELSE 0,
        channels |-> IF create THEN channels \cup {made} ELSE channels,
        next_id |-> IF create THEN next_id + 1 ELSE next_id,
        WEBHOOKS |-> IF ok THEN Put(WEBHOOKS, key, target) ELSE WEBHOOKS,
        redis_webhooks |-> IF ok THEN Put(redis_webhooks, key, target) ELSE redis_webhooks,
        saved |-> ok]

AttachmentOutcomes == {"file", "link", "fail"}

\* a consumer task other than the one `pc` follows (on_ready has fired more
\* than once) pops a plain message that is no replay, finds no route under
\* its key and no channel of its name, and is suspended in `await
\* guild.create_text_channel`
SecondDequeue ==
    /\ consumers > 1
    /\ QUEUE_NAME = "message_queue"
    /\ message_queue # <<>>
    /\ LET m == message_queue[Len(message_queue)]
           md == NormalizedMessage(m)
           chan == SendNorm(md.channel_name)
           srv == SendNorm(md.server_name)
           key == SendKey(md.category_name, md.server_name, md.channel_name)
       IN /\ md.message_type = "regular"
          /\ md.channel_id \notin polar_deleted_channels
          /\ ~(PolarTrigger(md) \/ ArchiveTrigger(md))
          /\ m \notin recent_message_ids
          /\ key \notin DOMAIN WEBHOOKS
          /\ {c \in channels : c.chan = chan /\ c.srv = srv /\ c.cat # DmCategory} = {}
          /\ message_queue' = SubSeq(message_queue, 1, Len(message_queue) - 1)
          /\ popped' = Append(popped, m)
          /\ \E victim \in recent_message_ids \cup {m} :
                recent_message_ids' = RecordRecent(recent_message_ids, m, victim)
          /\ creating' = creating \cup {[mid |-> m, chan |-> chan, srv |-> srv, key |-> key]}
    /\ UNCHANGED <<collectorVars, pc, cur, lastPost, delivered, routeVars,
                   polar_deleted_channels, archive, fileVars, guildVars,
                   protected_by_cmd, cmds, consumers, world>>

\* guild.create_text_channel returns to that task, or raises: the channel is
\* there, the webhook is taken and filed under the key, the config saved,
\* and the message posted (the webhook answers 200)
SecondCreated(p, chanOk, hookOk) ==
    /\ p \in creating
    /\ creating' = creating \ {p}
    /\ LET create == chanOk /\ next_id < MaxChan
           made == [id |-> next_id + 1, chan |-> p.chan, srv |-> p.srv, cat |-> NoCategory,
                    age |-> 0, pos |-> next_id + 1]
           ok == create /\ hookOk
       IN /\ channels' = IF create THEN channels \cup {made} ELSE channels
          /\ next_id' = IF create THEN next_id + 1 ELSE next_id
          /\ WEBHOOKS' = IF ok THEN Put(WEBHOOKS, p.key, made.id) ELSE WEBHOOKS
          /\ redis_webhooks' = IF ok THEN Put(redis_webhooks, p.key, made.id)
                               ELSE redis_webhooks
          /\ IF ok
             THEN /\ config' = BotSaveConfig(config, webhook_cache, DM_MAPPINGS)
                  /\ cfgFile' = SaveGlobalConfig(config')
             ELSE UNCHANGED fileVars
          /\ delivered' = IF ok THEN [delivered EXCEPT ![p.mid] = @ + 1] ELSE delivered
    /\ UNCHANGED <<collectorVars, message_queue, pc, cur, lastPost, popped, webhook_cache,
                   DM_MAPPINGS, R_TOKENS, dedupVars, deleted_by_retention, channel_created,
                   today, protected_by_cmd, cmds, consumers, world>>

\* redis_client.rpop raises (the connection to Redis is lost): the call is
\* outside the inner try, so the exception leaves both `while True` loops
\* and reaches the except clause around them, which logs; the coroutine
\* returns
RpopRaises ==
    /\ pc = "idle"
    /\ pc' = "ended"
    /\ UNCHANGED <<collectorVars, message_queue, cur, lastPost, delivered, popped,
                   routeVars, dedupVars, fileVars, guildVars, cmdVars>>

\* process_redis_messages pops a regular message and send_to_webhook runs up
\* to its first POST
Dequeue ==
    /\ pc = "idle"
    /\ QUEUE_NAME = "message_queue"
    /\ message_queue # <<>>
    /\ LET m == message_queue[Len(message_queue)]
           md == NormalizedMessage(m)
       IN /\ md.message_type = "regular"
          /\ message_queue' = SubSeq(message_queue, 1, Len(message_queue) - 1)
          /\ IF md.channel_id \in polar_deleted_channels
             THEN UNCHANGED <<pc, cur, dedupVars, WEBHOOKS, redis_webhooks, fileVars,
                              channels, next_id>>
             ELSE IF PolarTrigger(md) \/ ArchiveTrigger(md)
             THEN \E delOk \in BOOLEAN, cached \in BOOLEAN :
                    \* cached: the bot is also a member of the source guild, so
                    \* its channel cache holds the source channel
                    LET found == GetChannel(md.channel_id)
                        gone == (found # {} \/ cached) /\ delOk
                    IN /\ channels' = IF gone THEN channels \ found ELSE channels
                       /\ polar_deleted_channels' =
                             IF gone /\ PolarTrigger(md)
                             THEN polar_deleted_channels \cup {md.channel_id}
                             ELSE polar_deleted_channels
                       /\ archive' = [looked |-> archive.looked \cup {md.channel_id},
                                      deleted |-> IF gone
                                                  THEN archive.deleted \cup {md.channel_id}
                                                  ELSE archive.deleted]
                       /\ UNCHANGED <<pc, cur, recent_message_ids, WEBHOOKS,
                                      redis_webhooks, fileVars, next_id>>
             ELSE IF m \in recent_message_ids
             THEN UNCHANGED <<pc, cur, dedupVars, WEBHOOKS, redis_webhooks, fileVars,
                              channels, next_id>>
             ELSE \E victim \in recent_message_ids \cup {m}, chanOk \in BOOLEAN,
                     hookOk \in BOOLEAN, att \in AttachmentOutcomes :
                    LET key == SendKey(md.category_name, md.server_name, md.channel_name)
                        hit == key \in DOMAIN WEBHOOKS
                        pr == Provision(md, chanOk, hookOk)
                        url == IF hit THEN WEBHOOKS[key] ELSE pr.url
                        empty == /\ StrLen(Strip(Flatten(md.content))) = 0
                                 /\ ~md.embeds
                                 /\ md.attachments = 0
                        parts0 == ContentParts(md.content)
                        parts == IF md.attachments > 0 /\ att = "link"
                                 THEN WithLargeFileLink(parts0, md.url_len) ELSE parts0
                    IN /\ recent_message_ids' = RecordRecent(recent_message_ids, m, victim)
                       /\ UNCHANGED <<polar_deleted_channels, archive>>
                       /\ IF hit
                          THEN UNCHANGED <<WEBHOOKS, redis_webhooks, fileVars, channels, next_id>>
                          ELSE /\ WEBHOOKS' = pr.WEBHOOKS
                               /\ redis_webhooks' = pr.redis_webhooks
                               /\ channels' = pr.channels
                               /\ next_id' = pr.next_id
                               /\ IF pr.saved
                                  THEN /\ config' = BotSaveConfig(config, webhook_cache, DM_MAPPINGS)
                                       /\ cfgFile' = SaveGlobalConfig(config')
                                  ELSE UNCHANGED fileVars
                       /\ IF url = 0 \/ empty
                          THEN UNCHANGED <<pc, cur>>
                          ELSE /\ pc' = "post"
                               /\ cur' = [mid |-> m, parts |-> parts, part_idx |-> 0,
                                          attempt |-> 0,
                                          files |-> md.attachments > 0 /\ att = "file",
                                          embeds |-> md.embeds, key |-> key, url |-> url,
                                          payload |-> 0]
    /\ lastPost' = NoPost
    /\ popped' = Append(popped, message_queue[Len(message_queue)])
    /\ UNCHANGED <<collectorVars, delivered, webhook_cache, DM_MAPPINGS,
                   R_TOKENS, deleted_by_retention, channel_created, today, cmdVars>>

\* what the webhook endpoint can answer, or the request raising
Responses == {"200", "429", "404_unknown_webhook", "404_unknown_channel", "413",
              "400_30005", "400_2000", "400_other", "500", "exception"}

\* `if part: payload["content"] = part`
BuildPayload(part) == part

\* the branch of the response chain taken, on the multipart path
\* (files_to_send) and on the JSON path
MultipartBranch(resp) ==
    CASE resp = "200" -> "success"
      [] resp = "429" -> "continue"
      [] resp = "404_unknown_webhook" -> "evict"
      [] resp = "exception" -> "except"
      [] OTHER -> "return"

JsonBranch(resp) ==
    CASE resp = "200" -> "success"
      [] resp = "429" -> "continue"
      [] resp = "404_unknown_webhook" -> "evict"
      [] resp = "400_2000" -> "continue"
      [] resp = "exception" -> "except"
      [] OTHER -> "return"

\* payload["content"] after the response: the JSON path cuts it on
\* "Must be 2000 or fewer in length" when it is longer than 1900
PayloadAfter(resp, multipart, sent) ==
    IF ~multipart /\ resp = "400_2000" /\ sent > TruncateAt THEN TruncateAt + 3 ELSE sent

\* seconds slept before the next attempt
SleptAfter(resp, attempt, retry_after) ==
    CASE resp = "429" -> retry_after
      [] resp = "exception" -> IF attempt < PartAttempts - 1 THEN 2 * (attempt + 1) ELSE 0
      [] OTHER -> 0

\* the locals after leaving the attempt loop of one part: the next part, or
\* the function is over
AfterPart(c) ==
    IF c.part_idx < Len(c.parts) - 1
    THEN [c EXCEPT !.part_idx = @ + 1, !.attempt = 0]
    ELSE NoCur

\* one POST of send_to_webhook and the handling of its response
Post(resp) ==
    /\ pc = "post"
    /\ resp \in world.responses
    /\ LET part == cur.parts[cur.part_idx + 1]
           sent == BuildPayload(part)
           multipart == cur.files /\ cur.part_idx = 0
           branch == IF multipart THEN MultipartBranch(resp) ELSE JsonBranch(resp)
           again == cur.attempt < PartAttempts - 1
           c1 == [cur EXCEPT !.payload = PayloadAfter(resp, multipart, sent)]
           nxt == CASE branch = "success" -> AfterPart(c1)
                    [] branch \in {"continue", "except"} ->
                         IF again THEN [c1 EXCEPT !.attempt = @ + 1] ELSE AfterPart(c1)
                    [] OTHER -> NoCur
       IN /\ resp = "200" => sent <= 2000 /\ GetChannel(cur.url) # {}
          /\ resp = "400_2000" => sent > 2000
          /\ cur' = nxt
          /\ pc' = IF nxt = NoCur THEN "idle" ELSE "post"
          /\ lastPost' = [mid |-> cur.mid, part_idx |-> cur.part_idx, len |-> sent,
                          multipart |-> multipart, status |-> resp,
                          prev_status |-> IF lastPost.mid = cur.mid
                                             /\ lastPost.part_idx = cur.part_idx
                                             /\ cur.attempt > 0
                                          THEN lastPost.status ELSE "none",
                          attempt |-> cur.attempt, key |-> cur.key, url |-> cur.url,
                          slept |-> SleptAfter(resp, cur.attempt, 1)]
          /\ delivered' = IF resp = "200" /\ cur.part_idx = 0
                          THEN [delivered EXCEPT ![cur.mid] = @ + 1] ELSE delivered
          /\ IF branch = "evict"
             THEN /\ WEBHOOKS' = Del(WEBHOOKS, cur.key)
                  /\ redis_webhooks' = Del(redis_webhooks, cur.key)
                  /\ config' = BotSaveConfig(config, webhook_cache, DM_MAPPINGS)
                  /\ cfgFile' = SaveGlobalConfig(config')
             ELSE UNCHANGED <<WEBHOOKS, redis_webhooks, fileVars>>
    /\ UNCHANGED <<collectorVars, message_queue, popped, webhook_cache, DM_MAPPINGS,
                   R_TOKENS, dedupVars, guildVars, cmdVars>>

\* ------------------------------------------------------ handle_dm_message
\* find_token_for_user: the token whose user_info.id is the user, or None
find_token_for_user(user) ==
    IF \E t \in Tokens : R_TOKENS[t].user_id = user
    THEN CHOOSE t \in Tokens : R_TOKENS[t].user_id = user
    ELSE NoToken

\* how far one run of handle_dm_message gets
DmOutcomes == {"category_fails", "channel_fails", "info_fails", "webhook_fails",
               "post_fails", "posted"}

\* process_redis_messages pops a DM and handle_dm_message runs: find or
\* create the category and the channel, write the DMRoute and config.json,
\* take the webhook, POST once (send_dm_via_webhook)
HandleDM(outcome) ==
    /\ pc = "idle"
    /\ QUEUE_NAME = "message_queue"
    /\ message_queue # <<>>
    /\ LET m == message_queue[Len(message_queue)]
           md == NormalizedMessage(m)
           existing == {c \in channels : /\ c.cat = DmCategory
                                         /\ c.chan = md.channel_name
                                         /\ c.srv = md.category_name}
           create == /\ existing = {}
                     /\ outcome \notin {"category_fails", "channel_fails"}
                     /\ next_id < MaxChan
           made == [id |-> next_id + 1, chan |-> md.channel_name, srv |-> md.category_name,
                    cat |-> DmCategory, age |-> 0, pos |-> next_id + 1]
           found == outcome # "category_fails" /\ existing # {}
           old == CHOOSE c \in existing : TRUE
           sender == find_token_for_user(md.dm_user_id)
           route == [user_id |-> md.dm_user_id, receiving_token |-> md.receiving_token,
                     sender_token |-> IF sender = NoToken THEN md.receiving_token ELSE sender,
                     relay_token |-> IF sender = NoToken THEN md.receiving_token ELSE sender]
           dms == IF create THEN Put(DM_MAPPINGS, made.id, route)
                  ELSE IF found /\ old.id \in DOMAIN DM_MAPPINGS
                  THEN [DM_MAPPINGS EXCEPT ![old.id] =
                           [@ EXCEPT !.receiving_token = md.receiving_token,
                                     !.sender_token = sender, !.relay_token = sender]]
                  ELSE DM_MAPPINGS
           written == create \/ (found /\ old.id \in DOMAIN DM_MAPPINGS)
           reached == (create /\ outcome \notin {"info_fails"}) \/ found
           empty == StrLen(Strip(Flatten(md.content))) = 0 /\ ~md.embeds /\ md.attachments = 0
       IN /\ md.message_type = "dm"
          /\ message_queue' = SubSeq(message_queue, 1, Len(message_queue) - 1)
          /\ channels' = IF create THEN channels \cup {made} ELSE channels
          /\ next_id' = IF create THEN next_id + 1 ELSE next_id
          /\ DM_MAPPINGS' = dms
          /\ IF written
             THEN /\ config' = [config EXCEPT !.dm_mappings = DOMAIN dms]
                  /\ cfgFile' = config'
             ELSE UNCHANGED fileVars
          /\ delivered' = IF reached /\ outcome = "posted" /\ ~empty
                          THEN [delivered EXCEPT ![m] = @ + 1] ELSE delivered
    /\ lastPost' = NoPost
    /\ popped' = Append(popped, message_queue[Len(message_queue)])
    /\ UNCHANGED <<collectorVars, pc, cur, WEBHOOKS, redis_webhooks, webhook_cache,
                   R_TOKENS, dedupVars, deleted_by_retention, channel_created, today,
                   cmdVars>>

\* ------------------------------------------------ cleanup_expired_channels
\* load_config().get("protected_channels", [])
ProtectedInFile == cfgFile.protected_channels

\* timedelta(hours=24) and timedelta(days=7), in hours
DayHours == 24
WeekHours == 168

\* current_time - created_time.replace(tzinfo=None), in hours: datetime.now()
\* is the host's local time and created_at is UTC, so the difference is the
\* age plus the host's offset from UTC
TimeElapsed(c) == c.age + world.utc_offset

\* the body of the loop for one channel of Daily Schedule; st = [channels,
\* keys, deleted, aborted]; fails = the ids whose channel.delete raises
RetainDaily(st, c, fails) ==
    LET keys1 == st.keys \cup {c.id}
        kept == [st EXCEPT !.keys = keys1]
    IN IF TimeElapsed(c) < DayHours THEN kept
       ELSE IF c.id \in ProtectedInFile THEN kept
       ELSE IF c.id \in fails THEN kept
       ELSE [st EXCEPT !.channels = @ \ {c}, !.keys = keys1 \ {c.id},
                       !.deleted = @ \cup {c.id}]

\* date_match, datetime(current_year, month, day) without ValueError, and
\* channel_date.date() < current_time.date()
IsPast(d) == d # NoMatch /\ ValidDate(d) /\ DateBefore(d, Days[today])
DatePassed(name) == IsPast(DateSearch(CleanName(name)))

\* the body of the loop for one channel of Release Guides: a date in the
\* past deletes at once (outside any try), else the 7-day rule
RetainRelease(st, c, fails) ==
    IF DatePassed(ChannelName(c))
    THEN IF c.id \in ProtectedInFile THEN st
         ELSE IF c.id \in fails THEN [st EXCEPT !.aborted = TRUE]
         ELSE [st EXCEPT !.channels = @ \ {c}, !.deleted = @ \cup {c.id}]
    ELSE LET keys1 == st.keys \cup {c.id}
             kept == [st EXCEPT !.keys = keys1]
         IN IF TimeElapsed(c) < WeekHours THEN kept
            ELSE IF c.id \in ProtectedInFile THEN kept
            ELSE IF c.id \in fails THEN kept
            ELSE [st EXCEPT !.channels = @ \ {c}, !.keys = keys1 \ {c.id},
                            !.deleted = @ \cup {c.id}]

\* the loop with its Release Guides branch taken by every other category
RetainBranchAny(cat) ==
    IF cat = DmCategory THEN "skip"
    ELSE IF cat = DAILY_SCHEDULE_CATEGORY_ID THEN "daily"
    ELSE "release"

\* the branch of `for category in guild.categories` a category takes
RetainBranch(cat) ==
    IF cat = DmCategory THEN "skip"
    ELSE IF cat = DAILY_SCHEDULE_CATEGORY_ID THEN "daily"
    ELSE IF cat = RELEASE_GUIDES_CATEGORY_ID THEN "release"
    ELSE "skip"

RECURSIVE RetainList(_, _, _, _, _)
\* `for channel in category.channels` from the i-th on
RetainList(st, cat, list, i, fails) ==
    IF i > Len(list) \/ st.aborted THEN st
    ELSE RetainList(IF RetainBranch(cat) = "daily" THEN RetainDaily(st, list[i], fails)
                    ELSE RetainRelease(st, list[i], fails),
                    cat, list, i + 1, fails)

RetainChannels(st, cat, todo, fails) ==
    IF RetainBranch(cat) = "skip" THEN st ELSE RetainList(st, cat, InOrder(todo), 1, fails)

RECURSIVE RetainCategories(_, _, _, _)
\* `for category in guild.categories`
RetainCategories(st, order, i, fails) ==
    IF i > Len(order) \/ st.aborted THEN st
    ELSE RetainCategories(
             RetainChannels(st, order[i], {c \in st.channels : c.cat = order[i]}, fails),
             order, i + 1, fails)

\* guild.categories, in either order of the two moveable categories
CategoryOrders ==
    {<<TaggedCategory, RELEASE_GUIDES_CATEGORY_ID, DAILY_SCHEDULE_CATEGORY_ID, DmCategory>>,
     <<TaggedCategory, DAILY_SCHEDULE_CATEGORY_ID, RELEASE_GUIDES_CATEGORY_ID, DmCategory>>}

\* one pass of the loop with the categories in `order`, channel.delete
\* raising for the ids in `fails`
RetentionStep(order, fails) ==
    /\ consumers > 0
    /\ LET st == RetainCategories([channels |-> channels, keys |-> channel_created,
                                   deleted |-> deleted_by_retention, aborted |-> FALSE],
                                  order, 1, fails)
       IN /\ channels' = st.channels
          /\ channel_created' = st.keys
          /\ deleted_by_retention' = st.deleted
    /\ UNCHANGED <<collectorVars, message_queue, senderVars, routeVars, dedupVars,
                   fileVars, next_id, today, cmdVars>>

\* one pass of the `while not self.is_closed()` loop of cleanup_expired_channels
RetentionTick ==
    \E order \in CategoryOrders,
       fails \in SUBSET {c.id : c \in {x \in channels : RetainBranch(x.cat) # "skip"}} :
        RetentionStep(order, fails)

\* ------------------------------------------ monitor_allowed_categories_only
ALLOWED_CATEGORY_IDS == {RELEASE_GUIDES_CATEGORY_ID, DAILY_SCHEDULE_CATEGORY_ID}

\* has_date_pattern: of its three searches on channel.name, the month names
\* and the ordinals cannot be written with the characters of the names here
has_date_pattern(name) == DateSearch(name) # NoMatch

\* _process_channel_in_allowed_category for a channel found in category
\* `cat`: the move is asked for a channel of Release Guides that is not in
\* Release Guides, and reads `guild`, a name the method does not have, so
\* the except clause logs and the channel stays
ProcessChannel(c, cat) ==
    IF cat = RELEASE_GUIDES_CATEGORY_ID
    THEN IF ~has_date_pattern(ChannelName(c)) /\ c.cat # RELEASE_GUIDES_CATEGORY_ID
         THEN c
         ELSE c
    ELSE c

\* the channels cs after the two loops of monitor_allowed_categories_only
Organized(cs) ==
    {IF c.cat \in ALLOWED_CATEGORY_IDS THEN ProcessChannel(c, c.cat) ELSE c : c \in cs}

\* one pass of the loop of monitor_allowed_categories_only
OrganizerTick ==
    /\ consumers > 0
    /\ channels' = Organized(channels)
    /\ UNCHANGED <<collectorVars, message_queue, senderVars, routeVars, dedupVars,
                   fileVars, next_id, deleted_by_retention, channel_created, today,
                   cmdVars>>

\* ------------------------------------------------ sort_channels_in_category
is_moveable_category(cat) == cat \in MOVEABLE_CATEGORY_IDS

NoSortKey == 999999

\* the key for the date match d and the time match t of a cleaned name
SortKey(d, t, by) ==
    IF by = "date" /\ d # NoMatch /\ ValidDate(d) THEN Timestamp(d, world.utc_offset)
    ELSE IF by = "time" /\ t # NoTime /\ ValidTime(t) THEN Hour24(t)
    ELSE NoSortKey

\* extract_sort_key(name)
extract_sort_key(name, by) ==
    SortKey(DateSearch(CleanName(name)), TimeSearch(CleanName(name)), by)

\* the place of the i-th of a list with keys `key` in the stable sort: after
\* the entries of smaller key and the earlier entries of equal key
Rank(key, i) ==
    Cardinality({j \in DOMAIN key : key[j] < key[i] \/ (key[j] = key[i] /\ j <= i)})

SortedBy(list, key) ==
    [r \in DOMAIN list |-> list[CHOOSE i \in DOMAIN list : Rank(key, i) = r]]

\* sorted(channels_to_sort, key=lambda ch: extract_sort_key(ch.name))
Sorted(list, by) ==
    SortedBy(list, [i \in DOMAIN list |-> extract_sort_key(ChannelName(list[i]), by)])

\* [ch.name for ch in ...]
Names(list) == [i \in DOMAIN list |-> ChannelName(list[i])]

\* the loop of channel.edit(position=i): it raises for the ids in `fails`, and
\* otherwise gives the channel position i among the channels of its category
Reordered(sorted_channels, fails) ==
    {[sorted_channels[i] EXCEPT
         !.pos = IF sorted_channels[i].id \in fails THEN @ ELSE i - 1]
        : i \in DOMAIN sorted_channels}

\* the text channels of the category after the body of sort_channels_in_category
SortOutcome(channels_to_sort, sorted_channels, fails) ==
    IF Len(channels_to_sort) <= 1 \/ Names(channels_to_sort) = Names(sorted_channels)
    THEN {channels_to_sort[i] : i \in DOMAIN channels_to_sort}
    ELSE Reordered(sorted_channels, fails)

\* the try block of sort_channels_in_category on the channels of `cat`
SortCategory(cat, by, fails) ==
    SortOutcome(InOrder({c \in channels : c.cat = cat}),
                Sorted(InOrder({c \in channels : c.cat = cat}), by), fails)

\* sort_channels_in_category(category, by)
SortStep(cat, by, fails) ==
    /\ consumers > 0
    /\ channels' =
          IF ~is_moveable_category(cat) THEN channels
          ELSE {c \in channels : c.cat # cat} \cup SortCategory(cat, by, fails)
    /\ UNCHANGED <<collectorVars, message_queue, senderVars, routeVars, dedupVars,
                   fileVars, next_id, deleted_by_retention, channel_created, today,
                   cmdVars>>

SortChannels(cat, by) ==
    \E fails \in SUBSET {c.id : c \in {x \in channels : x.cat = cat}} : SortStep(cat, by, fails)

\* ------------------------------------------------------ /protect, /unprotect
\* protect_channel by an administrator on an existing channel, once the bot
\* is ready: load the file, append the id if absent, save the file
Protect(c) ==
    /\ cmds < MaxCmds
    /\ consumers > 0
    /\ c \in channels
    /\ cmds' = cmds + 1
    /\ cfgFile' = IF c.id \in cfgFile.protected_channels THEN cfgFile
                  ELSE [cfgFile EXCEPT !.protected_channels = @ \cup {c.id}]
    /\ protected_by_cmd' = protected_by_cmd \cup {c.id}
    /\ UNCHANGED <<collectorVars, message_queue, senderVars, routeVars, dedupVars,
                   config, guildVars, consumers, world, creating>>

\* unprotect_channel: load the file, remove the id if present, save the file
Unprotect(c) ==
    /\ cmds < MaxCmds
    /\ consumers > 0
    /\ c \in channels
    /\ cmds' = cmds + 1
    /\ cfgFile' = IF c.id \in cfgFile.protected_channels
                  THEN [cfgFile EXCEPT !.protected_channels = @ \ {c.id}]
                  ELSE cfgFile
    /\ protected_by_cmd' = protected_by_cmd \ {c.id}
    /\ UNCHANGED <<collectorVars, message_queue, senderVars, routeVars, dedupVars,
                   config, guildVars, consumers, world, creating>>

\* ------------------------------------------------------------ environment
\* the ages, in hours, a channel is looked at: new, a day old, a week old
Ages == {0, 24, 168}

\* time passes for a channel of a moveable category (no other age is read):
\* its age reaches the next of Ages
TimePasses(c) ==
    /\ c \in channels
    /\ c.cat \in MOVEABLE_CATEGORY_IDS
    /\ \E a \in Ages :
          /\ a > c.age
          /\ \A b \in Ages : b > c.age => a <= b
          /\ channels' = (channels \ {c}) \cup {[c EXCEPT !.age = a]}
    /\ UNCHANGED <<collectorVars, message_queue, senderVars, routeVars, dedupVars,
                   fileVars, next_id, deleted_by_retention, channel_created, today,
                   cmdVars>>

\* midnight on the host: datetime.now().date() is the next of Days
Midnight ==
    /\ today < Len(Days)
    /\ today' = today + 1
    /\ UNCHANGED <<collectorVars, message_queue, senderVars, routeVars, dedupVars,
                   fileVars, channels, next_id, deleted_by_retention, channel_created,
                   cmdVars>>

\* ---------------------------------------------------------- specification
\* the state after both processes have loaded config.json, before on_ready
InitCommon ==
    /\ R_TOKENS = TOKENS
    /\ monitored_servers = [t \in Tokens |-> TOKENS[t].servers]
    /\ lpushed = [t \in Tokens |-> [m \in MsgIds |-> 0]]
    /\ http = [m \in MsgIds |-> 0]
    /\ monitor = [live |-> SrcChannels,
                  monitored_channels |->
                      {c \in SrcChannels : is_time_or_date_based(SrcChannel(c).name)},
                  sent |-> {},
                  gone_at |-> [c \in SrcChannels |-> 0 - 1]]
    /\ login = [t \in Tokens |-> [attempts |-> 0, state |-> "starting",
                                   status |-> "ok", login_failure |-> FALSE]]
    /\ watch = [file |-> TOKENS, shape |-> "ok", server_name_cache |-> {}, now |-> 0, last_modified |-> 0 - DebounceSecs,
                config_reload_flag |-> FALSE, wake |-> PollSecs, changed |-> 0 - 1,
                mods |-> 0]
    /\ message_queue = <<>>
    /\ pc = "start"
    /\ cur = NoCur
    /\ recent_message_ids = {}
    /\ polar_deleted_channels = {}
    /\ archive = [looked |-> {}, deleted |-> {}]
    /\ WEBHOOKS = EmptyMap
    /\ redis_webhooks = EmptyMap
    /\ webhook_cache = EmptyMap
    /\ DM_MAPPINGS = EmptyMap
    /\ config = [webhooks |-> {}, dm_mappings |-> {}, protected_channels |-> {},
                 status |-> [t \in Tokens |-> "ok"]]
    /\ cfgFile = config
    /\ lastPost = NoPost
    /\ popped = <<>>
    /\ delivered = [m \in MsgIds |-> 0]
    /\ deleted_by_retention = {}
    /\ channel_created = {}
    /\ today = 1
    /\ protected_by_cmd = {}
    /\ cmds = 0
    /\ consumers = 0
    /\ creating = {}

\* the pipeline: one collector sees two short guild messages and a DM; the
\* webhook answers 200 or 500; the destination guild starts empty
Init ==
    /\ TOKENS = TokensA
    /\ InitCommon
    /\ world = [tokens |-> {"T1"}, msgs |-> {"m1", "m3", "m4"},
                responses |-> {"200", "500"},
                utc_offset |-> 0, queue |-> "message_queue"]
    /\ events = 0
    /\ channels = {}
    /\ next_id = 0

Next ==
    \/ \E t \in Tokens, m \in MsgIds : OnMessage(t, m)
    \/ \E t \in Tokens, m \in MsgIds : OnDirectMessage(t, m)
    \/ \E m \in MsgIds : ProcessMessage(m)
    \/ OnReady
    \/ Dequeue
    \/ \E outcome \in DmOutcomes : HandleDM(outcome)
    \/ \E resp \in Responses : Post(resp)

Spec == Init /\ [][Next]_vars

\* the collectors alone: both tokens, every message, either file
InitCollect ==
    /\ TOKENS \in TokenFiles
    /\ InitCommon
    /\ world = [tokens |-> Tokens, msgs |-> MsgIds, responses |-> {},
                utc_offset |-> 0, queue |-> "message_queue"]
    /\ events = 0
    /\ channels = {}
    /\ next_id = 0

NextCollect ==
    \/ \E t \in Tokens, m \in MsgIds : OnMessage(t, m)
    \/ \E t \in Tokens, m \in MsgIds : OnDirectMessage(t, m)
    \/ \E m \in MsgIds : ProcessMessage(m)

SpecCollect == InitCollect /\ [][NextCollect]_vars

\* one message through send_to_webhook, the webhook answering anything
InitSend ==
    /\ TOKENS = TokensA
    /\ InitCommon
    /\ world = [tokens |-> {"T1"}, msgs |-> {"m1", "m2", "m3"}, responses |-> Responses,
                utc_offset |-> 0, queue |-> "message_queue"]
    /\ events = MaxEvents - 1
    /\ channels = {}
    /\ next_id = 0

NextSend ==
    \/ \E t \in Tokens, m \in MsgIds : OnMessage(t, m)
    \/ \E m \in MsgIds : ProcessMessage(m)
    \/ OnReady
    \/ Dequeue
    \/ \E resp \in Responses : Post(resp)

SpecSend == InitSend /\ [][NextSend]_vars

\* two plain messages of one source channel and two consumer tasks
InitRace ==
    /\ TOKENS = TokensA
    /\ InitCommon
    /\ world = [tokens |-> {"T1"}, msgs |-> {"m1", "m8"}, responses |-> {"200"},
                utc_offset |-> 0, queue |-> "message_queue"]
    /\ events = 0
    /\ channels = {}
    /\ next_id = 0

NextRace ==
    \/ NextSend
    \/ SecondDequeue
    \/ \E p \in creating, chanOk \in BOOLEAN, hookOk \in BOOLEAN : SecondCreated(p, chanOk, hookOk)

SpecRace == InitRace /\ [][NextRace]_vars

\* the same with a Redis that can fail under the consumer
NextPoll == NextSend \/ RpopRaises

SpecPoll == InitSend /\ [][NextPoll]_vars

\* two peers write to the account of T1, whose DMs are mirrored
InitDM ==
    /\ TOKENS = TokensA
    /\ InitCommon
    /\ world = [tokens |-> {"T1"}, msgs |-> {"m4", "m9"}, responses |-> {"200"},
                utc_offset |-> 0, queue |-> "message_queue"]
    /\ events = 0
    /\ channels = {}
    /\ next_id = 0

NextDM ==
    \/ \E t \in Tokens, m \in MsgIds : OnDirectMessage(t, m)
    \/ OnReady
    \/ \E outcome \in DmOutcomes : HandleDM(outcome)

SpecDM == InitDM /\ [][NextDM]_vars

\* the republisher started with or without --queue: the consumer loop polls
\* for as long as the process lives, the gateway delivers a first on_ready,
\* and an HTTP exchange ends
InitQueue ==
    /\ TOKENS = TokensA
    /\ InitCommon
    /\ world \in {[tokens |-> {"T1"}, msgs |-> {"m1", "m2", "m3"}, responses |-> Responses,
                   utc_offset |-> 0, queue |-> q] : q \in {"message_queue", "mirror_queue"}}
    /\ events = MaxEvents - 1
    /\ channels = {}
    /\ next_id = 0

SpecQueue ==
    /\ InitQueue
    /\ [][NextSend]_vars
    /\ WF_vars(consumers = 0 /\ OnReady)
    /\ WF_vars(Dequeue)
    /\ WF_vars(\E resp \in Responses : Post(resp))
    /\ WF_vars(\E m \in MsgIds : ProcessMessage(m))

\* the archive triggers: a plain message and three trigger messages of one
\* source channel, two of them seen by the collector; the webhook answers 200
InitArchive ==
    /\ TOKENS = TokensA
    /\ InitCommon
    /\ world = [tokens |-> {"T1"}, msgs |-> {"m1", "m5", "m6", "m7"},
                responses |-> {"200"},
                utc_offset |-> 0, queue |-> "message_queue"]
    /\ events = 0
    /\ channels = {}
    /\ next_id = 0

SpecArchive == InitArchive /\ [][NextSend]_vars

\* a destination guild whose two moveable categories hold a mirror channel
\* each: the mirror of source channel 11 in Daily Schedule, a channel named
\* for a date still to come in Release Guides
GuardChannels ==
    {[id |-> 1, chan |-> SendNorm(SrcChannel(11).name), srv |-> SendNorm(ServerName("S1")),
      cat |-> DAILY_SCHEDULE_CATEGORY_ID, age |-> 0, pos |-> 1],
     [id |-> 2, chan |-> <<"0", "5", "-", "0", "1", "-", "b">>, srv |-> <<"a">>,
      cat |-> RELEASE_GUIDES_CATEGORY_ID, age |-> 0, pos |-> 2]}

InitGuard ==
    /\ TOKENS = TokensA
    /\ InitCommon
    /\ world = [tokens |-> {"T1"}, msgs |-> {"m1", "m4"},
                responses |-> {"200", "404_unknown_webhook"},
                utc_offset |-> 0, queue |-> "message_queue"]
    /\ events = MaxEvents - 1
    /\ channels = GuardChannels
    /\ next_id = MaxChan

\* on_ready with the retention loop, the two commands and time
NextGuard ==
    \/ OnReady
    \/ RetentionTick
    \/ \E c \in channels : Protect(c)
    \/ \E c \in channels : Unprotect(c)
    \/ \E c \in channels : TimePasses(c)

SpecGuard == InitGuard /\ [][NextGuard]_vars

\* the collectors with their config watcher: one session sees the message of
\* a channel whose category the second file excludes
InitWatch ==
    /\ TOKENS = TokensA
    /\ InitCommon
    /\ world = [tokens |-> {"T1"}, msgs |-> {"m2"}, responses |-> {}, utc_offset |-> 0, queue |-> "message_queue"]
    /\ events = 0
    /\ channels = {}
    /\ next_id = 0

NextWatch ==
    \/ \E f \in TokenFiles, shape \in ConfigShapes : ModifyConfig(f, shape)
    \/ MainLoop
    \/ Tick
    \/ \E t \in Tokens, m \in MsgIds : OnMessage(t, m)
    \/ \E m \in MsgIds : ProcessMessage(m)

SpecWatch == InitWatch /\ [][NextWatch]_vars

\* the watcher and the session of the second token, which is a member of S1
\* and sees a plain message there
InitReload ==
    /\ TOKENS = TokensA
    /\ InitCommon
    /\ world = [tokens |-> {"T2"}, msgs |-> {"m1"}, responses |-> {}, utc_offset |-> 0,
                queue |-> "message_queue"]
    /\ events = 0
    /\ channels = {}
    /\ next_id = 0

SpecReload == InitReload /\ [][NextWatch]_vars

\* the collector process with its clock while the source guild deletes
\* channels
NextMonitor ==
    \/ \E c \in SrcChannels : ChannelDeleted(c)
    \/ MainLoop
    \/ Tick

SpecMonitor == InitWatch /\ [][NextMonitor]_vars

\* the login tasks of the two tokens
InitLogin ==
    /\ TOKENS = TokensA
    /\ InitCommon
    /\ world = [tokens |-> Tokens, msgs |-> {}, responses |-> {}, utc_offset |-> 0, queue |-> "message_queue"]
    /\ events = 0
    /\ channels = {}
    /\ next_id = 0

NextLogin ==
    \/ \E t \in Tokens, outcome \in StartOutcomes : TryStartBot(t, outcome)
    \/ \E t \in Tokens, raised \in BOOLEAN : SessionEnds(t, raised)

SpecLogin == InitLogin /\ [][NextLogin]_vars

\* the login tasks of the collectors beside a republisher that is running:
\* its on_ready, the first and one after a reconnect
NextMark ==
    \/ NextLogin
    \/ OnReady

SpecMark == InitLogin /\ [][NextMark]_vars

\* a destination guild with a channel of an earlier layout in its tagged
\* category, a channel named for a date in Release Guides and one named for
\* an hour in Daily Schedule; the host's clock is on UTC or five hours west
\* of it; no message arrives
InitLayout ==
    /\ TOKENS = TokensA
    /\ InitCommon
    /\ world \in {[tokens |-> {}, msgs |-> {}, responses |-> {}, utc_offset |-> o, queue |-> "message_queue"] :
                     o \in {0 - 5, 0}}
    /\ events = 0
    /\ channels =
          {[id |-> 1, chan |-> <<"b">>, srv |-> <<>>, cat |-> TaggedCategory,
            age |-> 168, pos |-> 1],
           [id |-> 2, chan |-> <<"0", "4", "-", "3", "0", "VBAR", "f">>, srv |-> <<>>,
            cat |-> RELEASE_GUIDES_CATEGORY_ID, age |-> 0, pos |-> 2],
           [id |-> 3, chan |-> <<"9", "a", "m">>, srv |-> <<>>,
            cat |-> DAILY_SCHEDULE_CATEGORY_ID, age |-> 0, pos |-> 3]}
    /\ next_id = 3

\* on_ready, the retention loop, the organizer loop and time
NextLayout ==
    \/ OnReady
    \/ RetentionTick
    \/ OrganizerTick
    \/ \E c \in channels : TimePasses(c)
    \/ Midnight

SpecLayout == InitLayout /\ [][NextLayout]_vars

\* a destination guild with `04-30-f` in Release Guides and `9am` in Daily
\* Schedule, on the first of May
InitRetain ==
    /\ TOKENS = TokensA
    /\ InitCommon
    /\ world = [tokens |-> {}, msgs |-> {}, responses |-> {}, utc_offset |-> 0,
                queue |-> "message_queue"]
    /\ events = 0
    /\ channels =
          {[id |-> 1, chan |-> <<"0", "4", "-", "3", "0", "-", "f">>, srv |-> <<>>,
            cat |-> RELEASE_GUIDES_CATEGORY_ID, age |-> 0, pos |-> 1],
           [id |-> 2, chan |-> <<"9", "a", "m">>, srv |-> <<>>,
            cat |-> DAILY_SCHEDULE_CATEGORY_ID, age |-> 0, pos |-> 2]}
    /\ next_id = 2

SpecRetain == InitRetain /\ [][NextLayout]_vars

\* the guild of SpecLayout with the dead-webhook sweep
NextSweep ==
    \/ OnReady
    \/ \E heads \in [config.webhooks -> HeadOutcomes] : CleanupDeadWebhooks(ToDelete(heads))
    \/ RetentionTick
    \/ \E c \in channels : TimePasses(c)

SpecSweep == InitLayout /\ [][NextSweep]_vars

\* two moveable categories out of order: Release Guides holds `05-01|b`,
\* `04-17|f` (both with the box-drawing bar) and `04-30-f`, Daily Schedule
\* holds `5pm` and `9am`
InitSort ==
    /\ TOKENS = TokensA
    /\ InitCommon
    /\ world \in {[tokens |-> {}, msgs |-> {}, responses |-> {}, utc_offset |-> o, queue |-> "message_queue"] :
                     o \in {0 - 5, 0}}
    /\ events = 0
    /\ channels =
          {[id |-> 1, chan |-> <<"0", "5", "-", "0", "1", "VBAR", "b">>, srv |-> <<>>,
            cat |-> RELEASE_GUIDES_CATEGORY_ID, age |-> 0, pos |-> 1],
           [id |-> 2, chan |-> <<"0", "4", "-", "1", "7", "VBAR", "f">>, srv |-> <<>>,
            cat |-> RELEASE_GUIDES_CATEGORY_ID, age |-> 0, pos |-> 2],
           [id |-> 3, chan |-> <<"0", "4", "-", "3", "0", "-", "f">>, srv |-> <<>>,
            cat |-> RELEASE_GUIDES_CATEGORY_ID, age |-> 0, pos |-> 3],
           [id |-> 4, chan |-> <<"5", "p", "m">>, srv |-> <<>>,
            cat |-> DAILY_SCHEDULE_CATEGORY_ID, age |-> 0, pos |-> 4],
           [id |-> 5, chan |-> <<"9", "a", "m">>, srv |-> <<>>,
            cat |-> DAILY_SCHEDULE_CATEGORY_ID, age |-> 0, pos |-> 5],
           [id |-> 6, chan |-> <<"b">>, srv |-> <<"a">>, cat |-> TaggedCategory,
            age |-> 0, pos |-> 6]}
    /\ next_id = 6

\* on_ready, the organizer loop, calls of sort_channels_in_category, the
\* retention loop and the days
NextSort ==
    \/ OnReady
    \/ OrganizerTick
    \/ RetentionTick
    \/ Midnight
    \/ \E cat \in {TaggedCategory} \cup MOVEABLE_CATEGORY_IDS, by \in {"date", "time"} :
          SortChannels(cat, by)

SpecSort == InitSort /\ [][NextSort]_vars

\* ----------------------------------------------------------------- claims
\* LPUSHes of message m by all collectors together
Enqueued(m) == lpushed["T1"][m] + lpushed["T2"][m]

\* the consumer popped the copies of m one after the other, no other id between
PoppedTogether(m) ==
    \A i, j \in DOMAIN popped :
        (i < j /\ popped[i] = m /\ popped[j] = m)
            => \A k \in i..j : popped[k] = m

\* C1: a guild message the collectors enqueued once (one LPUSH and the one
\* POST to /process_message that goes with it) is republished at most once,
\* whichever copy the consumer pops first: at most one run of send_to_webhook
\* gets a 2xx for its first part.
C1_AtMostOnce ==
    \A m \in MsgIds :
        (Msg(m).type = "regular" /\ Enqueued(m) <= 1 /\ PoppedTogether(m))
            => delivered[m] <= 1

\* C2: the collector of token T never enqueues a guild message of a server
\* T lists when T's own exclusion sets for that server hold the message's
\* category id or channel id.
C2_OwnExclusions ==
    \A t \in Tokens, m \in MsgIds :
        (Msg(m).type = "regular" /\ lpushed[t][m] > 0
            /\ SrcChannel(Msg(m).channel).server \in TOKENS[t].servers)
        => LET ch == SrcChannel(Msg(m).channel)
           IN /\ ch.category \notin TOKENS[t].excluded_categories[ch.server]
              /\ Msg(m).channel \notin TOKENS[t].excluded_channels[ch.server]

\* C3: a channel id /protect added and no /unprotect has since removed is
\* never deleted by the retention loop.
C3_ProtectedNeverDeleted == protected_by_cmd \cap deleted_by_retention = {}

\* the consumer pops m again right after a run for m that posted it
Replayed(m) ==
    /\ pc = "idle"
    /\ popped # <<>>
    /\ popped[Len(popped)] = m
    /\ delivered[m] >= 1
    /\ message_queue # <<>>
    /\ message_queue[Len(message_queue)] = m
    /\ popped' # popped

\* C4: processing a message (regular or dm) a second time, right after a
\* first processing that posted it, changes no destination artifact: nothing
\* is posted or about to be, and channels, routes and DM mappings stay.
C4_ReplayIdempotent ==
    [][\A m \in MsgIds :
          Replayed(m) => /\ pc' = "idle"
                         /\ delivered' = delivered
                         /\ channels' = channels
                         /\ WEBHOOKS' = WEBHOOKS
                         /\ DM_MAPPINGS' = DM_MAPPINGS]_vars

\* C5: however often the gateway delivers one MESSAGE_CREATE to a
\* collector, that collector LPUSHes the message at most once.
C5_CollectorDedup ==
    \A t \in Tokens, m \in MsgIds : lpushed[t][m] <= 1

\* the consumer is still inside send_to_webhook on the part of the last POST
SamePartPending ==
    /\ pc = "post"
    /\ cur.mid = lastPost.mid
    /\ cur.part_idx = lastPost.part_idx

\* C6: after a 404 "Unknown Webhook" the route is provisioned again for the
\* same key and the same message is about to be POSTed again.
C6_UnknownWebhookRetried ==
    lastPost.status = "404_unknown_webhook"
        => SamePartPending /\ lastPost.key \in DOMAIN WEBHOOKS

\* C7: after a 429, whatever the number of 429 responses before it, the
\* same part is about to be POSTed again.
C7_RateLimitNeverDrops ==
    lastPost.status = "429" => SamePartPending

\* C8: after a 5xx on the first or second attempt of a part, the same part
\* is about to be POSTed again as the next attempt, after 2*(attempt+1) s.
C8_ServerErrorRetried ==
    (lastPost.status = "500" /\ lastPost.attempt < PartAttempts - 1)
        => /\ SamePartPending
           /\ cur.attempt = lastPost.attempt + 1
           /\ lastPost.slept = 2 * (lastPost.attempt + 1)

\* C9: after a 404 "Unknown Channel" the key of the route used is in
\* neither WEBHOOKS nor the Redis hash, and the message is dropped.
C9_UnknownChannelEvicts ==
    lastPost.status = "404_unknown_channel"
        => /\ lastPost.key \notin DOMAIN WEBHOOKS
           /\ lastPost.key \notin DOMAIN redis_webhooks
           /\ pc = "idle"

\* C10: the POST that follows a 400 "Must be 2000 or fewer in length" for
\* the same part carries the content cut to 1900 characters plus "...".
C10_TruncatedRetry ==
    lastPost.prev_status = "400_2000" => lastPost.len = TruncateAt + 3

\* C11: every content part POSTed for a message whose content is longer than
\* 2000 characters is at most 1900 characters long.
C11_PartsWithinLimit ==
    (lastPost.mid # "none" /\ TextLen(Msg(lastPost.mid).content) > 2000)
        => lastPost.len <= max_length

\* the archive-trigger condition as the payload of the collector carries it:
\* titles of embeds are inside embeds[]
MeetsArchiveCondition(m) ==
    LET md == NormalizedMessage(m)
    IN /\ md.message_type = "regular"
       /\ \/ /\ md.author_name = "Polar Helper#6493"
             /\ md.embeds_title = "channel archive" \/ md.says = "channel archive"
          \/ md.says \in {"!archive", "channel archive", "archived to forum thread"}

\* C12: a message that meets the archive-trigger condition is never POSTed
\* to a webhook.
C12_ArchiveSuppressed ==
    \A m \in MsgIds :
        MeetsArchiveCondition(m) => delivered[m] = 0 /\ lastPost.mid # m

\* C13: once an archive branch has run for a source channel id, no message
\* with that channel_id is POSTed to a webhook.
C13_ArchivedChannelSilent ==
    lastPost.mid # "none" => Msg(lastPost.mid).channel \notin archive.looked

\* C14: the archive branches never look a channel up by the id of the source
\* channel, and never delete the channel that has that id.
C14_ArchiveDeletesMirror ==
    /\ archive.looked \cap SrcChannels = {}
    /\ archive.deleted \cap SrcChannels = {}

\* C15: no pass of the organizer loop and no pass of the retention loop
\* repositions, re-parents or deletes a channel whose category is not one of
\* the two moveable categories: the channel is the same after the pass.
C15_OutsideUntouched ==
    [][(RetentionTick \/ OrganizerTick) =>
          \A c \in channels : c.cat \notin MOVEABLE_CATEGORY_IDS => c \in channels']_vars

\* the retention loop has deleted a channel while a channel a week old sits
\* in the tagged category
C15_Witness ==
    /\ deleted_by_retention # {}
    /\ \E c \in channels : c.cat = TaggedCategory /\ TimeElapsed(c) >= WeekHours

\* C16: every run of on_ready leaves the name and the parent category of
\* every channel outside the two moveable categories as they were.
C16_OnReadyKeepsLayout ==
    [][OnReady =>
          \A c \in channels : c.cat \notin MOVEABLE_CATEGORY_IDS =>
              \E d \in channels' : /\ d.id = c.id
                                    /\ ChannelName(d) = ChannelName(c)
                                    /\ d.cat = c.cat]_vars

\* C17: a retention pass in which no channel.delete raises deletes every
\* channel of Daily Schedule that is not protected and is at least 24 h old,
\* and removes its channel_created key.
C17_DailyExpiredDeleted ==
    [][\A order \in CategoryOrders : RetentionStep(order, {}) =>
          \A c \in channels :
              (/\ c.cat = DAILY_SCHEDULE_CATEGORY_ID
               /\ c.id \notin ProtectedInFile
               /\ c.age >= DayHours)
                  => (c \notin channels' /\ c.id \notin channel_created')]_vars

\* the MM-DD date a channel name is written with: the pattern on the name
\* itself, every character in its place
NameDate(name) == DateSearch(LowerName(name))

\* C18: a retention pass in which no channel.delete raises deletes every
\* unprotected channel of Release Guides whose name is written with an MM-DD
\* date earlier than today, whatever its age.
C18_PastDateDeleted ==
    [][\A order \in CategoryOrders : RetentionStep(order, {}) =>
          \A c \in channels :
              (/\ c.cat = RELEASE_GUIDES_CATEGORY_ID
               /\ c.id \notin ProtectedInFile
               /\ IsPast(NameDate(ChannelName(c))))
                  => c \notin channels']_vars

\* the key a channel name is written with: month and day, or the hour of the
\* day, and NoSortKey when it has neither
WrittenDateKey(d) == IF ValidDate(d) THEN 100 * d.month + d.day ELSE NoSortKey
WrittenTimeKey(t) == IF ValidTime(t) THEN Hour24(t) ELSE NoSortKey
WrittenKey(name, by) ==
    IF by = "date" THEN WrittenDateKey(NameDate(name))
    ELSE WrittenTimeKey(TimeSearch(LowerName(name)))

\* the key sort_channels_in_category is called with for a moveable category
SortBy(cat) == IF cat = RELEASE_GUIDES_CATEGORY_ID THEN "date" ELSE "time"

\* the text channels of a moveable category as sort_channels_in_category
\* leaves them when every channel.edit succeeds
SortedCategory(cat) == SortCategory(cat, SortBy(cat), {})

\* C19: sort_channels_in_category on a moveable category leaves a channel
\* whose name is written with a smaller key before one with a larger key,
\* and a channel with no key after every channel that has one (`04-17|foo`
\* before `05-01|bar`).
C19_SortedByKey ==
    \A cat \in MOVEABLE_CATEGORY_IDS :
        \A a, b \in SortedCategory(cat) :
            WrittenKey(ChannelName(a), SortBy(cat)) < WrittenKey(ChannelName(b), SortBy(cat))
                => Before(a, b)

\* C20: ten seconds after the latest modification of config.json, the
\* exclusion sets every collector filters with are those of the file as it
\* is (a file that loads), also when the modification came inside the
\* debounce window of an earlier one.
C20_ReloadWithinTen ==
    (watch.changed >= 0 /\ watch.now - watch.changed >= 10 /\ watch.shape = "ok") =>
        \A s \in Servers :
            /\ get_excluded_categories(TOKENS, s) = get_excluded_categories(watch.file, s)
            /\ get_excluded_channels(TOKENS, s) = get_excluded_channels(watch.file, s)

\* C21: a reload that fails (config.json does not parse, or has no
\* "settings") leaves TOKENS, every bot's monitored_servers and the
\* server-name cache as they were.
C21_FailedReloadKeepsSnapshot ==
    [][(MainLoop /\ watch.config_reload_flag /\ watch.shape # "ok") =>
          /\ TOKENS' = TOKENS
          /\ monitored_servers' = monitored_servers
          /\ watch'.server_name_cache = watch.server_name_cache]_vars

\* C22: a token whose login raised LoginFailure is marked failed in
\* config.json and its login task has stopped: no further attempt is made.
C22_LoginFailureStops ==
    \A t \in Tokens :
        login[t].login_failure =>
            login[t].status = "failed" /\ login[t].state = "stopped"

\* C23: every stored DMRoute has sender_token and relay_token equal to the
\* token of the peer when the peer is a managed session, and to
\* receiving_token otherwise; relay_token is not None while receiving_token
\* is set.
C23_RelayTokenSet ==
    \A id \in DOMAIN DM_MAPPINGS :
        LET r == DM_MAPPINGS[id]
            expected == IF find_token_for_user(r.user_id) # NoToken
                        THEN find_token_for_user(r.user_id) ELSE r.receiving_token
        IN /\ r.sender_token = expected
           /\ r.relay_token = expected
           /\ r.receiving_token # NoToken => r.relay_token # NoToken

\* C24: after a sweep that saw a dead webhook (401, 403 or 404), the key of
\* that route is in neither WEBHOOKS, which send_to_webhook looks keys up
\* in, nor the Redis hash "webhooks".
C24_SweepEvicts ==
    [][\A dead \in SUBSET config.webhooks :
          CleanupDeadWebhooks(dead) =>
              \A k \in dead : k \notin DOMAIN WEBHOOKS' /\ k \notin DOMAIN redis_webhooks']_vars

\* C25: no registered (time- or date-named) source text channel is still
\* unreported ten seconds after it left its guild's listing: by then the
\* collector has sent a delete_channel event for it.
C25_DeletionReported ==
    \A c \in monitor.monitored_channels :
        (monitor.gone_at[c] >= 0 /\ watch.now - monitor.gone_at[c] >= MonitorSecs)
            => c \in monitor.sent

\* C26: an exception raised while polling the queue, a Redis error in RPOP
\* included, does not end process_redis_messages: the loop is polling
\* again afterwards.
C26_RpopErrorSurvived == [][RpopRaises => pc' = "idle"]_vars

\* C27: at most one process_redis_messages task runs, however often
\* on_ready fires (no task ends in this specification, so the tasks created
\* are the tasks running).
C27_SingleConsumer == consumers <= 1

\* C28: the messages of one (category, server, channel) triple get at most
\* one destination channel, whether their handlers run one after the other
\* or interleaved.
C28_OneChannelPerTriple ==
    \A a, b \in channels :
        (a.cat = NoCategory /\ b.cat = NoCategory /\ a.chan = b.chan /\ a.srv = b.srv)
            => a.id = b.id

\* C29: once send_to_webhook has provisioned a route for a message, the
\* route is stored under the lookup key send_to_webhook computes for that
\* message, so a later message of the same triple finds it and does not
\* provision again.
C29_RouteUnderLookupKey ==
    [][(Dequeue /\ WEBHOOKS' # WEBHOOKS) =>
          LET md == NormalizedMessage(popped'[Len(popped')])
          IN SendKey(md.category_name, md.server_name, md.channel_name)
                 \in DOMAIN WEBHOOKS']_vars

\* C30: recent_message_ids holds the most recently recorded ids and no more
\* than the bound: the id send_to_webhook has just recorded on its way to
\* posting is in the set, and the set is within the bound.
C30_RecentKeepsNewest ==
    [][(Dequeue /\ pc' = "post") =>
          /\ cur'.mid \in recent_message_ids'
          /\ Cardinality(recent_message_ids') <= MaxRecent]_vars

\* C31: a pass of the organizer loop leaves the text channels of Release
\* Guides in ascending order of the date in their names and those of Daily
\* Schedule in ascending order of the hour in their names, channels with
\* neither at the bottom.
C31_OrganizerOrders ==
    consumers > 0 =>
        \A a, b \in Organized(channels) :
            (/\ a.cat = b.cat
             /\ a.cat \in MOVEABLE_CATEGORY_IDS
             /\ WrittenKey(ChannelName(a), SortBy(a.cat))
                    < WrittenKey(ChannelName(b), SortBy(a.cat)))
                => Before(a, b)

\* C32: whatever name --queue gives the republisher, a payload that a
\* collector or /process_message pushed is eventually popped by the consumer
\* loop.
C32_PushedIsPopped ==
    \A m \in MsgIds :
        (\E i \in 1..Len(message_queue) : message_queue[i] = m)
            ~> (\A i \in 1..Len(message_queue) : message_queue[i] # m)

\* C33: a token's status in config.json is "failed" only after a
\* LoginFailure was raised for that token; gateway or network errors, even
\* MAX_LOGIN_ATTEMPTS of them in a row, never mark a token failed.
C33_FailedOnlyAfterLoginFailure ==
    \A t \in Tokens :
        login[t].status = "failed" => login[t].login_failure

\* the keys of WEBHOOKS, of the Redis hash "webhooks" and of "webhooks" in
\* config.json are the same
RouteStoresAgree ==
    /\ DOMAIN WEBHOOKS = DOMAIN redis_webhooks
    /\ DOMAIN redis_webhooks = cfgFile.webhooks

\* C34: from a state in which the three route stores hold the same keys,
\* every provisioning or eviction of a route leaves them holding the same
\* keys.
C34_StoresStayEqual == [][RouteStoresAgree => RouteStoresAgree']_vars

\* C35: a pass of the sweep removes a route only if its HEAD answered 401,
\* 403 or 404; a route whose HEAD timed out or failed on the network is still
\* in config.json and in the Redis hash after the pass.
C35_ErrorKeepsRoute ==
    [][\A heads \in [config.webhooks -> HeadOutcomes] :
          CleanupDeadWebhooks(ToDelete(heads)) =>
              \A k \in config.webhooks :
                  heads[k] \notin {"401", "403", "404"} =>
                      /\ k \in config'.webhooks
                      /\ k \in DOMAIN redis_webhooks => k \in DOMAIN redis_webhooks']_vars

\* C36: at any time, hot reloads included, the collector running under a
\* token enqueues a guild message only if the message's guild is one of the
\* servers config.json lists under that same token.
C36_OwnServersOnly ==
    [][\A t \in Tokens, m \in MsgIds :
          (OnMessage(t, m) /\ lpushed'[t][m] > lpushed[t][m]) =>
              SrcChannel(Msg(m).channel).server \in TOKENS[t].servers]_vars

\* C37: once the collector has written status "failed" for a token to
\* config.json, no later write restores the earlier value: the status in the
\* file stays "failed" through every save of the republisher.
C37_FailedStays ==
    [][\A t \in Tokens :
          cfgFile.status[t] = "failed" => cfgFile'.status[t] = "failed"]_vars

\* C38: within one pass of the retention loop, a channel.delete that raises
\* stops nothing but that deletion: every other channel of the two moveable
\* categories is still examined, so whatever the pass deletes when no delete
\* raises, it deletes now too, the channels whose delete raised aside.
C38_FailureSkipsOnlyThat ==
    consumers > 0 =>
        \A order \in CategoryOrders,
           fails \in SUBSET {c.id : c \in {x \in channels : RetainBranch(x.cat) # "skip"}} :
            LET st == [channels |-> channels, keys |-> channel_created,
                       deleted |-> deleted_by_retention, aborted |-> FALSE]
            IN (RetainCategories(st, order, 1, {}).deleted \ fails)
                   \subseteq RetainCategories(st, order, 1, fails).deleted

\* the destination channel handle_dm_message finds for a DM: the text channel
\* of that name in the DM category of the receiving account
DmChannelOf(m) ==
    {c \in channels : /\ c.cat = DmCategory
                      /\ c.chan = NormalizedMessage(m).channel_name
                      /\ c.srv = NormalizedMessage(m).category_name}

\* C39: DMs of two distinct peers of one self account, once both mirrored,
\* are in two different destination DM channels.
C39_PeersInOwnChannels ==
    \A m, n \in MsgIds :
        (/\ Msg(m).type = "dm" /\ Msg(n).type = "dm"
         /\ Msg(m).self = Msg(n).self
         /\ Msg(m).author # Msg(n).author
         /\ delivered[m] > 0 /\ delivered[n] > 0)
            => DmChannelOf(m) # DmChannelOf(n)

\* C40: the first POST of a part after the first is made only when the
\* part before it was delivered (its last POST answered 2xx): a part that
\* is still undelivered after its retries ends the delivery of the message.
C40_NextPartAfterDelivery ==
    [][\A resp \in Responses :
          (Post(resp) /\ cur.part_idx > 0 /\ cur.attempt = 0) =>
              /\ lastPost.mid = cur.mid
              /\ lastPost.part_idx = cur.part_idx - 1
              /\ lastPost.status = "200"]_vars

====
